---- MODULE Spec2Model ----
(***************************************************************************)
(* A model of chunkah's build pipeline: component attribution              *)
(* (src/components), packing and OCI assembly (cmd_build.rs,               *)
(* ocibuilder.rs) and the per-layer tar writer (tar.rs).                   *)
(*                                                                         *)
(* Paths are sequences of path components as std::path yields them: the    *)
(* first component of an absolute path is the root directory "/", the      *)
(* others are names. A FileMap (BTreeMap<Utf8PathBuf, FileInfo>) is a      *)
(* function from a set of paths to FileInfo records; its iteration order   *)
(* is the component-wise order of the paths (SortPaths).                   *)
(***************************************************************************)
EXTENDS Integers, Sequences, FiniteSets, TLC

VARIABLES
    pc,                   \* position of the modelled operation
    files,                \* the scanned FileMap handed to the operation
    xattr_repo,           \* result of XattrRepo::load
    rpm_packages,         \* the packages of the rootfs's RPM database
    alpm_packages,        \* the packages of the rootfs's ALPM local database
    load_order,           \* the order the backends were pushed to repos
    repos,                \* ComponentsRepos.repos
    default_mtime_clamp,  \* ComponentsRepos.default_mtime_clamp
    components,           \* the HashMap into_components returns
    max_layers,           \* BuildArgs.max_layers
    entry_order,          \* the order components.into_iter() yields this run
    packed,               \* the Vec pack_components returns
    layers,               \* the layers of the manifest, in manifest order
    rootfs,               \* what the rootfs Dir answers for a path
    mtime_clamp,          \* the mtime_clamp of write_files_to_tar
    cursor,               \* how many entries of files the tar loop has done
    tar_dir_stack,        \* write_files_to_tar's dir_stack
    tar_inode_to_path,    \* write_files_to_tar's inode_to_path
    tar,                  \* the entries appended to the tar builder
    skip_special_files,   \* Scanner.skip_special_files
    prune_paths,          \* Scanner.prune_paths
    walk,                 \* the entries the rootfs walk has still to visit
    scan_result,          \* what Scanner::scan returned, None while it runs
    error,                \* the error cmd_build::run returned, None if none
    output,               \* the output file of the build
    config_json,          \* the JSON text given to parse_config
    parsed,               \* what parse_config returned
    cli_pairs,            \* the KEY=VALUE strings of the command line
    base_map,             \* the map parse_key_value_pairs merges into
    merged,               \* what parse_key_value_pairs returned
    installed,            \* the labels or annotations the image is given
    diff_ids,             \* the diff-ids of the image config's rootfs
    oci_dir,              \* what was inserted in the OCI directory
    pack_groups,          \* the packer's groups
    srpm_input,           \* the SRPM file name of a package
    srpm_name,            \* what parse_srpm_name returned
    changelog_times,      \* the changelog timestamps of a package
    buildtime,            \* the build time of a package
    now,                  \* the system time, in the units of the timestamps
    stability_result,     \* what calculate_stability returned
    db_file,              \* the lines of a desc or files file
    db_result             \* what loading the ALPM package returned

attr_vars ==
    <<xattr_repo, rpm_packages, alpm_packages, load_order, repos,
      default_mtime_clamp>>
build_vars == <<max_layers, entry_order, packed, layers>>
tar_vars ==
    <<rootfs, mtime_clamp, cursor, tar_dir_stack, tar_inode_to_path, tar>>

scan_vars == <<skip_special_files, prune_paths, walk, scan_result>>
run_vars == <<error, output>>
cfg_vars == <<config_json, parsed, cli_pairs, base_map, merged, installed>>
oci_vars == <<diff_ids, oci_dir>>
pack_vars == <<pack_groups>>
parse_vars == <<srpm_input, srpm_name, changelog_times, buildtime, now,
                stability_result, db_file, db_result>>
ext_vars == <<scan_vars, run_vars, cfg_vars, oci_vars, pack_vars, parse_vars>>

\* Everything but pc and the variables of the parsers.
pipeline_vars == <<files, components, attr_vars, build_vars, tar_vars,
                   scan_vars, run_vars, cfg_vars, oci_vars, pack_vars>>

vars == <<pc, files, components, attr_vars, build_vars, tar_vars, ext_vars>>

\* Option::None for strings and records; NoId is Option::None for ids.
None == "None"
NoId == -1

-----------------------------------------------------------------------------
(* Bounds of the model.                                                    *)

\* Largest number of entries of a generated rootfs tree.
MaxFiles == 4
\* Largest number of entries that carry a user.component xattr.
MaxMarks == 2
\* Largest number of attribution signals of a generated rootfs: xattr marks
\* plus file listings of the package databases.
MaxSignals == 3
\* Largest number of components handed to the packer.
MaxComponents == 3
\* Largest max_layers of a build.
MaxLayers == 3
\* Largest mtime of an entry of the rootfs the tar writer reads.
MaxMtime == 3
\* Stabilities are f64; the model counts them in units of the smallest
\* positive f64 and scales 0.25 down to this many units.
UnitsPerQuarter == 2
\* Largest length of the first KEY=VALUE string of a command line.
MaxPairLen == 5
\* Largest number of KEY=VALUE strings of a command line.
MaxPairs == 2
\* Largest length of a JSON array given as the config.
MaxArray == 2
\* Largest length of an SRPM name before its suffix.
MaxSrpmLen == 7

-----------------------------------------------------------------------------
(* Paths: camino::Utf8Path as a sequence of components.                    *)

RootDir == "/"
Root == <<RootDir>>

\* Every name the model uses, in ascending byte order (str's Ord).
NameOrder ==
    <<"/", "Packages", "a", "app", "b", "lib", "local", "opt", "pacman",
      "rpm", "share", "sysimage", "usr", "var">>

NameRank(n) == CHOOSE i \in DOMAIN NameOrder : NameOrder[i] = n

\* Path::starts_with: base is a whole-component prefix of path.
starts_with(path, base) ==
    /\ Len(base) <= Len(path)
    /\ SubSeq(path, 1, Len(base)) = base

\* Path::strip_prefix("/"): Ok(the relative path), or Err when path is not
\* absolute.
strip_prefix_root(path) ==
    IF Len(path) >= 1 /\ path[1] = RootDir
    THEN [ok |-> TRUE, rel |-> Tail(path)]
    ELSE [ok |-> FALSE, rel |-> <<>>]

\* Ord for paths: component-wise lexicographic, a proper prefix sorts first.
PathLess(p, q) ==
    \E i \in 1..(Len(p) + 1) :
        /\ i <= Len(q)
        /\ \A j \in 1..(i - 1) : p[j] = q[j]
        /\ (i = Len(p) + 1 \/ NameRank(p[i]) < NameRank(q[i]))

\* Iteration order of a BTreeMap keyed by paths.
RECURSIVE SortPaths(_)
SortPaths(S) ==
    IF S = {} THEN <<>>
    ELSE LET m == CHOOSE p \in S : \A q \in S \ {p} : PathLess(p, q)
         IN  <<m>> \o SortPaths(S \ {m})

\* Path::parent for a path that has one.
Parent(p) == SubSeq(p, 1, Len(p) - 1)

-----------------------------------------------------------------------------
(* FileInfo and rootfs generation.                                         *)

FileTypes == {"Directory", "File", "Symlink"}

XATTR_NAME == "user.component"

\* A FileInfo; xattrs is the Vec<(String, Vec<u8>)> of the scan.
FileInfo(ft, size, mtime, ino, nlink, xattrs) ==
    [file_type |-> ft, size |-> size, mtime |-> mtime, ino |-> ino,
     nlink |-> nlink, xattrs |-> xattrs]

\* The scanner never records the root and records an entry only below a
\* recorded directory: the trees of at most n entries over the given names.
RECURSIVE Trees(_, _)
Trees(names, n) ==
    IF n = 0 THEN {{}}
    ELSE LET T == Trees(names, n - 1)
             Kids(S) == {Append(q, nm) : q \in S \cup {Root}, nm \in names} \ S
         IN  T \cup UNION {{S \cup {p} : p \in Kids(S)} : S \in T}

HasChild(S, p) == \E q \in S : Len(q) = Len(p) + 1 /\ starts_with(q, p)

\* File types a tree admits: an entry with children is a directory.
TypeAssignments(S) ==
    {t \in [S -> FileTypes] : \A p \in S : HasChild(S, p) => t[p] = "Directory"}

\* Vec::iter().position: 0-based index of x in seq, or NoId.
IndexOf(seq, x) ==
    IF \E i \in DOMAIN seq : seq[i] = x
    THEN (CHOOSE i \in DOMAIN seq : seq[i] = x /\ \A j \in 1..(i - 1) : seq[j] # x) - 1
    ELSE NoId

\* The xattr lists the model gives an entry: none, the component xattr
\* alone, or the component xattr behind an unrelated one.
XattrsOf(mark) ==
    IF mark = None THEN <<>>
    ELSE IF mark = "A" THEN <<<<XATTR_NAME, "A">>>>
    ELSE <<<<"user.other", "A">>, <<XATTR_NAME, mark>>>>

XattrValues == {"A", "B"}

MarkAssignments(S) ==
    {m \in [S -> XattrValues \cup {None}] :
        Cardinality({p \in S : m[p] # None}) <= MaxMarks}

-----------------------------------------------------------------------------
(* components/xattr.rs: XattrRepo.                                         *)

\* xattr.rs get_component_xattr: the value of the first user.component xattr.
get_component_xattr(file_info) ==
    LET hits == SelectSeq(file_info.xattrs, LAMBDA kv : kv[1] = XATTR_NAME)
    IN  IF hits = <<>> THEN None ELSE hits[1][2]

\* A walk that never pops its directory stack.
XattrPopNone(dir_stack, path) == dir_stack

\* The while loop at the head of XattrRepo::load's walk: pop the directories
\* that are not strict ancestors of path.
RECURSIVE XattrPop(_, _)
XattrPop(dir_stack, path) ==
    IF dir_stack = <<>> THEN dir_stack
    ELSE LET dir_path == dir_stack[Len(dir_stack)].path
         IN  IF starts_with(path, dir_path) /\ path # dir_path
             THEN dir_stack
             ELSE XattrPop(SubSeq(dir_stack, 1, Len(dir_stack) - 1), path)

\* One iteration of the for loop of XattrRepo::load.
XattrLoadStep(st, path, file_info) ==
    LET popped == XattrPop(st.dir_stack, path)
        own_xattr == get_component_xattr(file_info)
        comps ==
            IF own_xattr # None /\ IndexOf(st.components, own_xattr) = NoId
            THEN Append(st.components, own_xattr)
            ELSE st.components
        own_component_id ==
            IF own_xattr = None THEN NoId ELSE IndexOf(comps, own_xattr)
        dir_stack ==
            IF file_info.file_type = "Directory" /\ own_component_id # NoId
            THEN Append(popped, [path |-> path, id |-> own_component_id])
            ELSE popped
        effective_id ==
            IF own_component_id # NoId THEN own_component_id
            ELSE IF dir_stack # <<>> THEN dir_stack[Len(dir_stack)].id
            ELSE NoId
    IN  [components |-> comps,
         dir_stack |-> dir_stack,
         path_to_component |->
            IF effective_id # NoId
            THEN (path :> effective_id) @@ st.path_to_component
            ELSE st.path_to_component]

RECURSIVE XattrWalk(_, _, _)
XattrWalk(fmap, order, st) ==
    IF order = <<>> THEN st
    ELSE XattrWalk(fmap, Tail(order),
                   XattrLoadStep(st, Head(order), fmap[Head(order)]))

NoRepo ==
    [some |-> FALSE, kind |-> "none", components |-> <<>>,
     path_to_component |-> <<>>, default_mtime_clamp |-> 0]

\* XattrRepo::load: Ok(None) when no entry carries the xattr.
XattrRepo_load(fmap, clamp) ==
    LET st == XattrWalk(fmap, SortPaths(DOMAIN fmap),
                        [components |-> <<>>, dir_stack |-> <<>>,
                         path_to_component |-> <<>>])
    IN  IF st.components = <<>> THEN NoRepo
        ELSE [some |-> TRUE, kind |-> "xattr", components |-> st.components,
              path_to_component |-> st.path_to_component,
              default_mtime_clamp |-> clamp]

\* XattrRepo::claims_for_path.
Xattr_claims_for_path(repo, path, file_type) ==
    IF path \in DOMAIN repo.path_to_component
    THEN <<repo.path_to_component[path]>>
    ELSE <<>>

\* XattrRepo::component_info.
Xattr_component_info(repo, id) ==
    [name |-> repo.components[id + 1],
     mtime_clamp |-> repo.default_mtime_clamp,
     stability |-> 0]

-----------------------------------------------------------------------------
(* Specification of XattrRepo::load over generated rootfs trees.           *)

XattrNames == {"a", "b"}

\* The FileMap of the tree S with file types t and xattr marks m.
XattrInput(S, t, m) ==
    [p \in S |-> FileInfo(t[p], 1, 1, 1, 1, XattrsOf(m[p]))]

\* The variables of the packing and of the tar writer, before either ran.
BuildIdle ==
    /\ max_layers = 0
    /\ entry_order = <<>>
    /\ packed = <<>>
    /\ layers = <<>>

TarIdle ==
    /\ rootfs = <<>>
    /\ mtime_clamp = 0
    /\ cursor = 0
    /\ tar_dir_stack = <<>>
    /\ tar_inode_to_path = <<>>
    /\ tar = <<>>

AttrIdle ==
    /\ rpm_packages = <<>>
    /\ alpm_packages = <<>>
    /\ load_order = <<>>
    /\ repos = <<>>
    /\ default_mtime_clamp = 0

\* A result that has not been returned yet.
NoResult == [status |-> "none"]

ScanIdle ==
    /\ skip_special_files = FALSE
    /\ prune_paths = <<>>
    /\ walk = {}
    /\ scan_result = NoResult

RunIdle ==
    /\ error = None
    /\ output = None

CfgIdle ==
    /\ config_json = None
    /\ parsed = NoResult
    /\ cli_pairs = <<>>
    /\ base_map = <<>>
    /\ merged = NoResult
    /\ installed = NoResult

OciIdle ==
    /\ diff_ids = <<>>
    /\ oci_dir = {}

PackIdle == pack_groups = <<>>

ParseIdle ==
    /\ srpm_input = ""
    /\ srpm_name = NoResult
    /\ changelog_times = <<>>
    /\ buildtime = 0
    /\ now = 0
    /\ stability_result = NoResult
    /\ db_file = <<>>
    /\ db_result = NoResult

ExtIdle ==
    ScanIdle /\ RunIdle /\ CfgIdle /\ OciIdle /\ PackIdle /\ ParseIdle

PipelineIdle ==
    /\ files = <<>>
    /\ xattr_repo = NoRepo
    /\ components = <<>>
    /\ AttrIdle
    /\ BuildIdle
    /\ TarIdle
    /\ ScanIdle
    /\ RunIdle
    /\ CfgIdle
    /\ OciIdle
    /\ PackIdle

InitXattr ==
    /\ pc = "xattr_start"
    /\ \E S \in Trees(XattrNames, MaxFiles) :
        \E t \in TypeAssignments(S), m \in MarkAssignments(S) :
            files = XattrInput(S, t, m)
    /\ xattr_repo = NoRepo
    /\ AttrIdle
    /\ components = <<>>
    /\ BuildIdle
    /\ TarIdle
    /\ ExtIdle

XattrLoad ==
    /\ pc = "xattr_start"
    /\ xattr_repo' = XattrRepo_load(files, 0)
    /\ pc' = "xattr_loaded"
    /\ UNCHANGED <<ext_vars, files, rpm_packages, alpm_packages, load_order, repos,
                   default_mtime_clamp, components, build_vars, tar_vars>>

NextXattr == XattrLoad

SpecXattr == InitXattr /\ [][NextXattr]_vars

\* The name of the component the loaded repo claims path for, or None.
XattrClaimName(repo, path, file_type) ==
    LET ids == Xattr_claims_for_path(repo, path, file_type)
    IN  IF ids = <<>> THEN None ELSE Xattr_component_info(repo, ids[1]).name

\* Strict ancestors of p in fmap that are directories carrying the xattr.
MarkedAncestors(fmap, p) ==
    {q \in DOMAIN fmap :
        /\ starts_with(p, q) /\ q # p
        /\ fmap[q].file_type = "Directory"
        /\ get_component_xattr(fmap[q]) # None}

\* The inheritance law: own xattr, else the nearest marked ancestor
\* directory's, else unclaimed.
InheritedName(fmap, p) ==
    IF get_component_xattr(fmap[p]) # None THEN get_component_xattr(fmap[p])
    ELSE IF MarkedAncestors(fmap, p) = {} THEN None
    ELSE LET q == CHOOSE a \in MarkedAncestors(fmap, p) :
                    \A b \in MarkedAncestors(fmap, p) : Len(b) <= Len(a)
         IN  get_component_xattr(fmap[q])

\* C4: after XattrRepo::load, every path is claimed for the component of its
\* own user.component xattr, else for that of its nearest ancestor directory
\* carrying the xattr, else it is not claimed at all.
XattrInheritanceLaw ==
    pc = "xattr_loaded" =>
        \A p \in DOMAIN files :
            XattrClaimName(xattr_repo, p, files[p].file_type)
                = InheritedName(files, p)

\* C4 witness: a loaded tree where an override on a subdirectory has ended:
\* a directory marked A holds a subdirectory marked B with an entry below
\* it, and a later entry of the outer directory that is claimed for A again.
XattrOverrideEnded ==
    /\ pc = "xattr_loaded"
    /\ \E d, s, x, y \in DOMAIN files :
        /\ get_component_xattr(files[d]) = "A"
        /\ get_component_xattr(files[s]) = "B"
        /\ Parent(s) = d /\ Parent(x) = s /\ Parent(y) = d
        /\ PathLess(s, y)
        /\ get_component_xattr(files[x]) = None
        /\ get_component_xattr(files[y]) = None
        /\ XattrClaimName(xattr_repo, x, files[x].file_type) = "B"
        /\ XattrClaimName(xattr_repo, y, files[y].file_type) = "A"

-----------------------------------------------------------------------------
(* components/rpm.rs: RpmRepo.                                             *)

RPMDB_PATHS ==
    <<<<"usr", "lib", "sysimage", "rpm">>, <<"usr", "share", "rpm">>,
      <<"var", "lib", "rpm">>>>

\* libc's file type bits of st_mode.
S_IFMT == 15 * 4096
S_IFDIR == 4 * 4096
S_IFREG == 8 * 4096
S_IFLNK == 10 * 4096

\* mode & S_IFMT.
FileTypeBits(mode) == ((mode \div 4096) % 16) * 4096

\* rpm.rs file_info_to_file_type.
file_info_to_file_type(fi) ==
    LET file_type == FileTypeBits(fi.mode)
    IN  IF file_type = S_IFDIR THEN "Directory"
        ELSE IF file_type = S_IFREG THEN "File"
        ELSE IF file_type = S_IFLNK THEN "Symlink"
        ELSE None

\* str::strip_suffix(suffix).unwrap_or(s).
StripSuffixOr(s, suffix) ==
    IF Len(s) >= Len(suffix)
       /\ SubSeq(s, Len(s) - Len(suffix) + 1, Len(s)) = suffix
    THEN SubSeq(s, 1, Len(s) - Len(suffix))
    ELSE s

\* A name that ends at the first dash.
parse_srpm_name_left(srpm) ==
    LET without_suffix == StripSuffixOr(srpm, ".src.rpm")
        dashes == {i \in 1..Len(without_suffix) :
                      SubSeq(without_suffix, i, i) = "-"}
    IN  IF Cardinality(dashes) >= 2
        THEN LET first == CHOOSE i \in dashes : \A j \in dashes : i <= j
             IN  SubSeq(without_suffix, 1, first - 1)
        ELSE without_suffix

\* rpm.rs parse_srpm_name: rsplitn(3, '-') yields three parts exactly when
\* the string has two dashes; parts[2] is what precedes the second-to-last.
parse_srpm_name(srpm) ==
    LET without_suffix == StripSuffixOr(srpm, ".src.rpm")
        dashes == {i \in 1..Len(without_suffix) :
                      SubSeq(without_suffix, i, i) = "-"}
    IN  IF Cardinality(dashes) >= 2
        THEN LET last == CHOOSE i \in dashes : \A j \in dashes : j <= i
                 second == CHOOSE i \in dashes \ {last} :
                              \A j \in dashes \ {last} : j <= i
             IN  SubSeq(without_suffix, 1, second - 1)
        ELSE without_suffix

\* The inner loop of load_from_packages: record the package's files under
\* component_id, once per component and path.
RECURSIVE RpmAddFiles(_, _, _, _)
RpmAddFiles(path_to_components, component_id, pkg_files, order) ==
    IF order = <<>> THEN path_to_components
    ELSE LET path == Head(order)
             entries == IF path \in DOMAIN path_to_components
                        THEN path_to_components[path] ELSE <<>>
             added ==
                IF \E i \in DOMAIN entries : entries[i].id = component_id
                THEN entries
                ELSE Append(entries, [id |-> component_id, fi |-> pkg_files[path]])
         IN  RpmAddFiles((path :> added) @@ path_to_components, component_id,
                         pkg_files, Tail(order))

\* One iteration of the package loop of load_from_packages. pkg.stability is
\* what calculate_stability returns for the package.
RpmLoadStep(st, pkg) ==
    LET component_name ==
            IF pkg.sourcerpm # None THEN parse_srpm_name(pkg.sourcerpm)
            ELSE pkg.name
        names == [i \in DOMAIN st.components |-> st.components[i].name]
        known == IndexOf(names, component_name)
        component_id == IF known # NoId THEN known ELSE Len(st.components)
        comps ==
            IF known # NoId THEN st.components
            ELSE Append(st.components,
                        [name |-> component_name, buildtime |-> pkg.buildtime,
                         stability |-> pkg.stability])
    IN  [components |-> comps,
         path_to_components |->
            RpmAddFiles(st.path_to_components, component_id, pkg.files,
                        SortPaths(DOMAIN pkg.files))]

RECURSIVE RpmLoadLoop(_, _)
RpmLoadLoop(packages, st) ==
    IF packages = <<>> THEN st
    ELSE RpmLoadLoop(Tail(packages), RpmLoadStep(st, Head(packages)))

\* RpmRepo::load_from_packages.
Rpm_load_from_packages(packages) ==
    LET st == RpmLoadLoop(packages,
                          [components |-> <<>>, path_to_components |-> <<>>])
    IN  [some |-> TRUE, kind |-> "rpm", components |-> st.components,
         path_to_components |-> st.path_to_components]

\* A claims_for_path that answers from the package listings alone.
Rpm_claims_listed(repo, path, file_type) ==
    IF path \in DOMAIN repo.path_to_components
    THEN LET entries == repo.path_to_components[path]
             matching == SelectSeq(entries,
                LAMBDA e : file_info_to_file_type(e.fi) = file_type)
         IN  [i \in DOMAIN matching |-> matching[i].id]
    ELSE <<>>

\* RpmRepo::claims_for_path.
Rpm_claims_for_path(repo, path, file_type) ==
    LET stripped == strip_prefix_root(path)
    IN  IF /\ stripped.ok
           /\ \E i \in DOMAIN RPMDB_PATHS :
                 starts_with(stripped.rel, RPMDB_PATHS[i])
        THEN <<>>
        ELSE IF path \in DOMAIN repo.path_to_components
        THEN LET entries == repo.path_to_components[path]
                 matching == SelectSeq(entries,
                    LAMBDA e : file_info_to_file_type(e.fi) = file_type)
             IN  [i \in DOMAIN matching |-> matching[i].id]
        ELSE <<>>

\* RpmRepo::component_info.
Rpm_component_info(repo, id) ==
    [name |-> repo.components[id + 1].name,
     mtime_clamp |-> repo.components[id + 1].buildtime,
     stability |-> repo.components[id + 1].stability]

-----------------------------------------------------------------------------
(* components/alpm.rs: AlpmComponentsRepo.                                 *)

LOCALDB_PATHS ==
    <<<<"usr", "lib", "sysimage", "lib", "pacman", "local">>,
      <<"var", "lib", "pacman", "local">>>>

\* Utf8Path::is_absolute.
is_absolute(path) == Len(path) >= 1 /\ path[1] = RootDir

\* AlpmComponentsRepo::files_to_map: the paths of the files file are
\* relative; every one is recorded under "/" joined with it.
RECURSIVE Alpm_files_to_map(_, _, _)
Alpm_files_to_map(path_to_components, component_id, pkgdb_files) ==
    IF pkgdb_files = <<>> THEN [ok |-> TRUE, map |-> path_to_components]
    ELSE LET path == Head(pkgdb_files)
             absolute_path == Root \o path
             entries == IF absolute_path \in DOMAIN path_to_components
                        THEN path_to_components[absolute_path] ELSE <<>>
         IN  IF is_absolute(path) THEN [ok |-> FALSE, map |-> path_to_components]
             ELSE Alpm_files_to_map(
                     (absolute_path :> Append(entries, component_id))
                         @@ path_to_components,
                     component_id, Tail(pkgdb_files))

\* IndexMap::insert_full: the index of the key, its value replaced.
InsertFull(map, key, value) ==
    LET names == [i \in DOMAIN map |-> map[i].name]
        known == IndexOf(names, key)
    IN  IF known # NoId
        THEN [index |-> known,
              map |-> [map EXCEPT ![known + 1].buildtime = value]]
        ELSE [index |-> Len(map),
              map |-> Append(map, [name |-> key, buildtime |-> value])]

\* The package loop of AlpmComponentsRepo::load_from_db; a package is the
\* BASE and BUILDDATE of its desc and the FILES of its files.
RECURSIVE AlpmLoadLoop(_, _)
AlpmLoadLoop(packages, st) ==
    IF packages = <<>> \/ ~st.ok THEN st
    ELSE LET pkg == Head(packages)
             ins == InsertFull(st.components, pkg.base, pkg.builddate)
             mapped == Alpm_files_to_map(st.path_to_components, ins.index,
                                         pkg.files)
         IN  AlpmLoadLoop(Tail(packages),
                          [ok |-> mapped.ok, components |-> ins.map,
                           path_to_components |-> mapped.map])

\* AlpmComponentsRepo::load_from_db; some is FALSE when it returns an error.
Alpm_load_from_db(packages) ==
    LET st == AlpmLoadLoop(packages,
                           [ok |-> TRUE, components |-> <<>>,
                            path_to_components |-> <<>>])
    IN  [some |-> st.ok, kind |-> "alpm", components |-> st.components,
         path_to_components |-> st.path_to_components]

\* AlpmComponentsRepo::claims_for_path.
Alpm_claims_for_path(repo, path, file_type) ==
    IF path \in DOMAIN repo.path_to_components
    THEN repo.path_to_components[path]
    ELSE <<>>

\* AlpmComponentsRepo::component_info.
Alpm_component_info(repo, id) ==
    [name |-> repo.components[id + 1].name,
     mtime_clamp |-> repo.components[id + 1].buildtime,
     stability |-> 0]

-----------------------------------------------------------------------------
(* components/bigfiles.rs: BigfilesRepo, by what the specification says   *)
(* of the big-files backend: it is absent from a rootfs without big files, *)
(* its priority is near the tail and its stability is filled in later.     *)
(* The model has it claim every big regular file as a component of the     *)
(* file's path.                                                            *)

\* The size from which a regular file is a big file, in the model's units.
BigFileSize == 2

IsBigFile(file_info) ==
    file_info.file_type = "File" /\ file_info.size >= BigFileSize

\* BigfilesRepo::load: None when the FileMap has no big file.
Bigfiles_load(fmap, clamp) ==
    LET big == {q \in DOMAIN fmap : IsBigFile(fmap[q])}
    IN  IF big = {} THEN NoRepo
        ELSE [some |-> TRUE, kind |-> "bigfiles", components |-> SortPaths(big),
              path_to_component |-> <<>>, default_mtime_clamp |-> clamp]

\* BigfilesRepo::claims_for_path.
Bigfiles_claims_for_path(repo, path, file_type) ==
    IF file_type = "File" /\ IndexOf(repo.components, path) # NoId
    THEN <<IndexOf(repo.components, path)>>
    ELSE <<>>

\* BigfilesRepo::component_info.
Bigfiles_component_info(repo, id) ==
    [name |-> repo.components[id + 1][Len(repo.components[id + 1])],
     mtime_clamp |-> repo.default_mtime_clamp,
     stability |-> 0]

-----------------------------------------------------------------------------
(* components/mod.rs: the ComponentsRepo trait and ComponentsRepos.        *)

UNCLAIMED_COMPONENT == "chunkah/unclaimed"

\* ComponentsRepo::name.
repo_name(repo) ==
    CASE repo.kind = "xattr" -> "xattr"
      [] repo.kind = "rpm" -> "rpm"
      [] repo.kind = "alpm" -> "alpm"
      [] repo.kind = "bigfiles" -> "bigfiles"

\* ComponentsRepo::default_priority.
default_priority(repo) ==
    CASE repo.kind = "xattr" -> 0
      [] repo.kind = "rpm" -> 10
      [] repo.kind = "alpm" -> 10
      [] repo.kind = "bigfiles" -> 100

\* ComponentsRepo::claims_for_path.
claims_for_path(repo, path, file_type) ==
    CASE repo.kind = "xattr" -> Xattr_claims_for_path(repo, path, file_type)
      [] repo.kind = "rpm" -> Rpm_claims_for_path(repo, path, file_type)
      [] repo.kind = "alpm" -> Alpm_claims_for_path(repo, path, file_type)
      [] repo.kind = "bigfiles" ->
            Bigfiles_claims_for_path(repo, path, file_type)

\* ComponentsRepo::component_info.
component_info(repo, id) ==
    CASE repo.kind = "xattr" -> Xattr_component_info(repo, id)
      [] repo.kind = "rpm" -> Rpm_component_info(repo, id)
      [] repo.kind = "alpm" -> Alpm_component_info(repo, id)
      [] repo.kind = "bigfiles" -> Bigfiles_component_info(repo, id)

\* Stability arithmetic: f64 counted in units of the smallest positive f64.
StabQuarter == UnitsPerQuarter
StabHalf == 2 * UnitsPerQuarter
StabOne == 4 * UnitsPerQuarter

\* x / 2.0 in f64: exact when representable, else rounded to nearest, ties
\* to even; half of the smallest positive value is 0.0.
HalfF64(x) ==
    IF x % 2 = 0 THEN x \div 2
    ELSE IF ((x - 1) \div 2) % 2 = 0 THEN (x - 1) \div 2
    ELSE (x + 1) \div 2

\* The repos left in the order they were loaded in.
LoadOrderKept(rs) == rs

\* slice::sort_by_key(default_priority): a stable sort.
RECURSIVE SortByPriority(_)
SortByPriority(rs) ==
    IF rs = <<>> THEN <<>>
    ELSE LET lowest == CHOOSE k \in {default_priority(rs[i]) : i \in DOMAIN rs} :
                          \A i \in DOMAIN rs : k <= default_priority(rs[i])
         IN  SelectSeq(rs, LAMBDA r : default_priority(r) = lowest)
                \o SortByPriority(
                       SelectSeq(rs, LAMBDA r : default_priority(r) # lowest))

\* claims.entry((repo_idx, id)).or_default().insert(path, file_info), for
\* every id of component_ids.
RECURSIVE InsertClaims(_, _, _, _, _)
InsertClaims(claims, repo_idx, component_ids, path, file_info) ==
    IF component_ids = <<>> THEN claims
    ELSE LET key == <<repo_idx, Head(component_ids)>>
             bucket == IF key \in DOMAIN claims THEN claims[key] ELSE <<>>
         IN  InsertClaims((key :> ((path :> file_info) @@ bucket)) @@ claims,
                          repo_idx, Tail(component_ids), path, file_info)

RECURSIVE InsertAllClaims(_, _, _, _, _)
InsertAllClaims(sorted, claims, idxs, path, file_info) ==
    IF idxs = {} THEN claims
    ELSE LET i == CHOOSE k \in idxs : TRUE
         IN  InsertAllClaims(sorted,
                InsertClaims(claims, i,
                    claims_for_path(sorted[i], path, file_info.file_type),
                    path, file_info),
                idxs \ {i}, path, file_info)

\* A claim step that hands the path to every repo that claims it.
ClaimStepEveryRepo(sorted, st, path, file_info) ==
    LET claimers == {i \in DOMAIN sorted :
                        claims_for_path(sorted[i], path, file_info.file_type)
                            # <<>>}
    IN  IF claimers = {}
        THEN [st EXCEPT !.unclaimed = (path :> file_info) @@ @]
        ELSE [st EXCEPT !.claims =
                InsertAllClaims(sorted, @, claimers, path, file_info)]

\* The filter_map closure of into_components for one entry of files: the
\* first repo with a non-empty claim list gets the path, else it is
\* unclaimed.
ClaimStep(sorted, st, path, file_info) ==
    LET claimers == {i \in DOMAIN sorted :
                        claims_for_path(sorted[i], path, file_info.file_type)
                            # <<>>}
    IN  IF claimers = {}
        THEN [st EXCEPT !.unclaimed = (path :> file_info) @@ @]
        ELSE LET repo_idx == CHOOSE i \in claimers : \A j \in claimers : i <= j
             IN  [st EXCEPT !.claims =
                    InsertClaims(@, repo_idx,
                        claims_for_path(sorted[repo_idx], path,
                                        file_info.file_type),
                        path, file_info)]

RECURSIVE ClaimLoop(_, _, _, _)
ClaimLoop(sorted, fmap, order, st) ==
    IF order = <<>> THEN st
    ELSE ClaimLoop(sorted, fmap, Tail(order),
                   ClaimStep(sorted, st, Head(order), fmap[Head(order)]))

\* "{}/{}" of the repo name and the component name.
FullName(sorted, key) ==
    repo_name(sorted[key[1]]) \o "/"
        \o component_info(sorted[key[1]], key[2]).name

\* A catch-all that is inserted whether or not a path is unclaimed.
BuildComponentsWithCatchAll(sorted, claims, unclaimed, clamp) ==
    (UNCLAIMED_COMPONENT :>
        [mtime_clamp |-> clamp, stability |-> 0, files |-> unclaimed])
    @@ [k \in {} |-> 0]
    @@ [n \in {FullName(sorted, k) : k \in DOMAIN claims} |->
            LET k == CHOOSE key \in DOMAIN claims : FullName(sorted, key) = n
                info == component_info(sorted[k[1]], k[2])
            IN  [mtime_clamp |-> info.mtime_clamp,
                 stability |-> info.stability,
                 files |-> claims[k]]]

\* The second loop of into_components and the catch-all. No two buckets of
\* the modelled backends share a full name, so the order the claims HashMap
\* is drained in does not show in the result.
BuildComponents(sorted, claims, unclaimed, clamp) ==
    LET names == {FullName(sorted, k) : k \in DOMAIN claims}
        named ==
            [n \in names |->
                LET k == CHOOSE key \in DOMAIN claims : FullName(sorted, key) = n
                    info == component_info(sorted[k[1]], k[2])
                IN  [mtime_clamp |-> info.mtime_clamp,
                     stability |-> info.stability,
                     files |-> claims[k]]]
    IN  IF DOMAIN unclaimed # {}
        THEN (UNCLAIMED_COMPONENT :>
                [mtime_clamp |-> clamp, stability |-> 0, files |-> unclaimed])
             @@ named
        ELSE named

\* The final pass of into_components: components with stability 0.0 get
\* half the smallest non-zero stability, or half of 0.5 when there is none.
FillStability(comps) ==
    LET nonzero == {comps[n].stability : n \in DOMAIN comps} \ {0}
        min_stability ==
            IF nonzero = {} THEN StabHalf
            ELSE CHOOSE s \in nonzero : \A t \in nonzero : s <= t
        fallback_stability == HalfF64(min_stability)
    IN  [n \in DOMAIN comps |->
            IF comps[n].stability = 0
            THEN [comps[n] EXCEPT !.stability = fallback_stability]
            ELSE comps[n]]

\* ComponentsRepos::into_components.
into_components(rs, clamp, fmap) ==
    LET sorted == SortByPriority(rs)
        st == ClaimLoop(sorted, fmap, SortPaths(DOMAIN fmap),
                        [claims |-> <<>>, unclaimed |-> <<>>])
    IN  FillStability(BuildComponents(sorted, st.claims, st.unclaimed, clamp))

-----------------------------------------------------------------------------
(* Specification of attribution: ComponentsRepos over a rootfs with an     *)
(* RPM database, an ALPM local database and user.component xattrs.         *)

DirMode == S_IFDIR + 493
FileMode == S_IFREG + 420
LinkMode == S_IFLNK + 511

\* The scanned rootfs of the attribution runs.
AttrTypes ==
    (<<"/", "opt">> :> "Directory")
    @@ (<<"/", "opt", "app">> :> "File")
    @@ (<<"/", "var">> :> "Directory")
    @@ (<<"/", "var", "lib">> :> "Directory")
    @@ (<<"/", "var", "lib", "pacman">> :> "Directory")
    @@ (<<"/", "var", "lib", "pacman", "local">> :> "Directory")
    @@ (<<"/", "var", "lib", "rpm">> :> "Directory")
    @@ (<<"/", "var", "lib", "rpm", "Packages">> :> "File")

\* Signals a generated rootfs draws from: xattr marks <<path, value>>, RPM
\* listings <<package, path, mode>> and ALPM listings (relative paths).
MarkItems ==
    {<<"/", "opt">>, <<"/", "opt", "app">>, <<"/", "var">>,
     <<"/", "var", "lib", "rpm">>}
        \X XattrValues
RpmItems ==
    {1, 2} \X
        {<<<<"/", "opt", "app">>, FileMode>>,
         <<<<"/", "opt", "app">>, LinkMode>>,
         <<<<"/", "var", "lib">>, DirMode>>,
         <<<<"/", "var", "lib", "rpm", "Packages">>, FileMode>>}
AlpmItems ==
    {<<"opt", "app">>, <<"var", "lib">>, <<"var", "lib", "pacman", "local">>}

\* Stabilities calculate_stability hands out: 0.0 for a brand-new package,
\* the smallest positive f64, and a value near 1.
RpmStabilities == {0, 1, StabOne - 1}

\* At most one xattr value per path and one mode per package and path.
Functional(S) == \A x, y \in S : x[1] = y[1] => x = y
RpmFunctional(R) ==
    \A x, y \in R : (x[1] = y[1] /\ x[2][1] = y[2][1]) => x = y

FilesOfMarks(M) ==
    [p \in DOMAIN AttrTypes |->
        FileInfo(AttrTypes[p], 1, 1, 1, 1,
                 XattrsOf(IF \E m \in M : m[1] = p
                          THEN (CHOOSE m \in M : m[1] = p)[2] ELSE None))]

RpmPackage(R, k, name, sourcerpm, stability) ==
    LET mine == {x \in R : x[1] = k}
        paths == {x[2][1] : x \in mine}
    IN  [name |-> name, sourcerpm |-> sourcerpm, buildtime |-> 4 + k,
         stability |-> stability,
         files |-> [p \in paths |->
                      [mode |-> (CHOOSE x \in mine : x[2][1] = p)[2][2]]]]

\* The packages of the RPM database: package 2 is either built from the
\* same source RPM as package 1 or carries no source RPM at all, and has
\* not changed for long.
RpmDatabases(R) ==
    LET has(k) == \E x \in R : x[1] = k
        first == IF has(1)
                 THEN {<<RpmPackage(R, 1, "p-libs", "p-1.0-1.src.rpm", s)>> :
                          s \in RpmStabilities}
                 ELSE {<<>>}
        second == IF has(2)
                  THEN {<<RpmPackage(R, 2, "q", srpm, StabOne - 1)>> :
                          srpm \in {"p-1.0-1.src.rpm", None}}
                  ELSE {<<>>}
    IN  {a \o b : a \in first, b \in second}

\* The one package of the ALPM local database. Its files file lists a
\* directory with a trailing '/', which the path comparison of files_to_map
\* and claims_for_path does not see; dirs are the paths listed that way.
AlpmDatabase(A) ==
    IF A = {} THEN <<>>
    ELSE <<[base |-> "a", builddate |-> 7, files |-> SortPaths(A),
            dirs |-> A \ {<<"opt", "app">>}]>>

Permutations3(S) ==
    {q \in UNION {[1..n -> S] : n \in {Cardinality(S)}} :
        \A i, j \in DOMAIN q : i # j => q[i] # q[j]}

InitAttr ==
    /\ pc = "attr_start"
    /\ \E M \in SUBSET MarkItems, R \in SUBSET RpmItems, A \in SUBSET AlpmItems :
        /\ Cardinality(M) + Cardinality(R) + Cardinality(A) <= MaxSignals
        /\ Functional(M) /\ RpmFunctional(R)
        /\ files = FilesOfMarks(M)
        /\ rpm_packages \in RpmDatabases(R)
        /\ alpm_packages = AlpmDatabase(A)
        /\ load_order \in Permutations3(
                (IF M = {} THEN {} ELSE {"xattr"}) \cup {"rpm", "alpm"})
    /\ default_mtime_clamp = 9
    /\ xattr_repo = NoRepo
    /\ repos = <<>>
    /\ components = <<>>
    /\ BuildIdle
    /\ TarIdle
    /\ ExtIdle

\* The backend of the given kind as its load function returns it.
LoadRepo(kind) ==
    CASE kind = "xattr" -> XattrRepo_load(files, default_mtime_clamp)
      [] kind = "rpm" -> Rpm_load_from_packages(rpm_packages)
      [] kind = "alpm" -> Alpm_load_from_db(alpm_packages)

\* ComponentsRepos::load: every backend that is present, pushed in
\* load_order; an error of a backend fails the load.
Load ==
    /\ pc = "attr_start"
    /\ LET loaded == [i \in DOMAIN load_order |-> LoadRepo(load_order[i])]
       IN  IF \E i \in DOMAIN loaded : loaded[i].kind = "alpm" /\ ~loaded[i].some
           THEN /\ pc' = "attr_error"
                /\ UNCHANGED <<repos, xattr_repo>>
           ELSE /\ repos' = SelectSeq(loaded, LAMBDA r : r.some)
                /\ xattr_repo' = XattrRepo_load(files, default_mtime_clamp)
                /\ pc' = "attr_loaded"
    /\ UNCHANGED <<ext_vars, files, rpm_packages, alpm_packages, load_order,
                   default_mtime_clamp, components, build_vars, tar_vars>>

\* ComponentsRepos::into_components.
IntoComponents ==
    /\ pc = "attr_loaded"
    /\ components' = into_components(repos, default_mtime_clamp, files)
    /\ pc' = "attr_done"
    /\ UNCHANGED <<ext_vars, files, attr_vars, build_vars, tar_vars>>

NextAttr == Load \/ IntoComponents

SpecAttr == InitAttr /\ [][NextAttr]_vars

\* The components of the result that hold path.
Holders(path) ==
    {n \in DOMAIN components : path \in DOMAIN components[n].files}

\* The full names of the components a repo claims path for.
ClaimedNames(repo, path) ==
    LET ids == claims_for_path(repo, path, files[path].file_type)
    IN  {repo_name(repo) \o "/" \o component_info(repo, ids[i]).name :
            i \in DOMAIN ids}

\* The repos that claim path, by their position in the loaded list.
Claimers(path) == {i \in DOMAIN repos : ClaimedNames(repos[i], path) # {}}

\* C2 as stated: after into_components every path is in exactly one
\* component, directories claimed under several ids included.
InExactlyOneComponent ==
    pc = "attr_done" =>
        \A p \in DOMAIN files : Cardinality(Holders(p)) = 1

\* C2 amended: after into_components every path is either in
\* chunkah/unclaimed alone, or in the components of exactly one backend, one
\* component per id that backend returns for the path, and never in both.
AttributionPartition ==
    pc = "attr_done" =>
        \A p \in DOMAIN files :
            \/ Holders(p) = {UNCLAIMED_COMPONENT} /\ Claimers(p) = {}
            \/ /\ UNCLAIMED_COMPONENT \notin Holders(p)
               /\ \E i \in Claimers(p) : Holders(p) = ClaimedNames(repos[i], p)
               /\ \A i, j \in Claimers(p) :
                    (Holders(p) \cap ClaimedNames(repos[i], p) # {}
                        /\ Holders(p) \cap ClaimedNames(repos[j], p) # {})
                    => repo_name(repos[i]) = repo_name(repos[j])

\* C2 witness: a directory two RPM components both list ends up in both of
\* them, while another path is left to chunkah/unclaimed.
SharedDirectoryInTwoComponents ==
    /\ pc = "attr_done"
    /\ Holders(<<"/", "var", "lib">>) = {"rpm/p", "rpm/q"}
    /\ Holders(<<"/", "var">>) = {UNCLAIMED_COMPONENT}

\* The repo into_components must give path to: of the repos that claim it,
\* the one of least default_priority, the earliest loaded among equals.
Winner(path) ==
    CHOOSE i \in Claimers(path) :
        \A j \in Claimers(path) \ {i} :
            \/ default_priority(repos[i]) < default_priority(repos[j])
            \/ default_priority(repos[i]) = default_priority(repos[j]) /\ i < j

\* C3: whatever order the backends were loaded in, a claimed path is in the
\* components of the claiming backend of least default_priority and in the
\* components of no other backend.
FirstClaimWins ==
    pc = "attr_done" =>
        \A p \in DOMAIN files :
            Claimers(p) # {} => Holders(p) = ClaimedNames(repos[Winner(p)], p)

\* C3 witness: rpm was loaded before xattr, both claim /opt/app, and it is
\* in the xattr component only.
XattrBeatsEarlierLoadedRpm ==
    /\ pc = "attr_done"
    /\ \E i, j \in DOMAIN repos :
        /\ i < j
        /\ repos[i].kind = "rpm" /\ repos[j].kind = "xattr"
        /\ {i, j} \subseteq Claimers(<<"/", "opt", "app">>)
    /\ Holders(<<"/", "opt", "app">>) = {"xattr/A"}

\* C5 as stated: after into_components every component has a stability
\* above zero.
StabilityPositive ==
    pc = "attr_done" =>
        \A n \in DOMAIN components : components[n].stability > 0

\* The components as the two loops of into_components leave them, before
\* the final pass over the stabilities.
Unfilled ==
    LET sorted == SortByPriority(repos)
        st == ClaimLoop(sorted, files, SortPaths(DOMAIN files),
                        [claims |-> <<>>, unclaimed |-> <<>>])
    IN  BuildComponents(sorted, st.claims, st.unclaimed, default_mtime_clamp)

\* C22 as stated: a component of stability 0 gets half of the smallest
\* non-zero stability of the components (halved as f64 division does), or
\* 0.5 when every component has stability 0; the others keep theirs.
StabilityFillIn ==
    pc = "attr_done" =>
        LET pre == Unfilled
            nonzero == {pre[n].stability : n \in DOMAIN pre} \ {0}
        IN  /\ DOMAIN components = DOMAIN pre
            /\ \A n \in DOMAIN components :
                  IF pre[n].stability # 0
                  THEN components[n].stability = pre[n].stability
                  ELSE IF nonzero = {}
                  THEN components[n].stability = StabHalf
                  ELSE \E least \in nonzero :
                          /\ \A t \in nonzero : least <= t
                          /\ components[n].stability = HalfF64(least)

\* The fill-in where some component has a non-zero stability.
StabilityFillInOfKnown ==
    pc = "attr_done" =>
        LET pre == Unfilled
            nonzero == {pre[n].stability : n \in DOMAIN pre} \ {0}
        IN  nonzero # {} =>
                \A n \in DOMAIN components :
                    IF pre[n].stability # 0
                    THEN components[n].stability = pre[n].stability
                    ELSE \E least \in nonzero :
                            /\ \A t \in nonzero : least <= t
                            /\ components[n].stability = HalfF64(least)

\* The backend a component name starts with.
BackendOf(name) ==
    CHOOSE b \in {"chunkah", "xattr", "rpm", "alpm"} :
        /\ Len(name) > Len(b)
        /\ SubSeq(name, 1, Len(b) + 1) = b \o "/"

\* C29: after into_components every path of the FileMap is in a component,
\* with the FileInfo it has in the FileMap; a path of chunkah/unclaimed is
\* in no other component; the components of a path are of one backend; no
\* component is without files or has a path the FileMap has not; and
\* chunkah/unclaimed is there exactly when no backend claims some path.
NoFileLost ==
    pc = "attr_done" =>
        /\ \A p \in DOMAIN files :
            /\ Holders(p) # {}
            /\ \A n \in Holders(p) : components[n].files[p] = files[p]
            /\ UNCLAIMED_COMPONENT \in Holders(p)
                  => Holders(p) = {UNCLAIMED_COMPONENT}
            /\ \A n1, n2 \in Holders(p) : BackendOf(n1) = BackendOf(n2)
        /\ \A n \in DOMAIN components :
            /\ DOMAIN components[n].files # {}
            /\ DOMAIN components[n].files \subseteq DOMAIN files
        /\ UNCLAIMED_COMPONENT \in DOMAIN components
              <=> \E p \in DOMAIN files : Claimers(p) = {}

\* C29 witness: /opt and /var carry the xattr and a package lists
\* /opt/app: every path is claimed, /opt/app by two backends, and the
\* result is the two xattr components, without chunkah/unclaimed.
EveryPathClaimed ==
    /\ pc = "attr_done"
    /\ DOMAIN components = {"xattr/A", "xattr/B"}
    /\ Cardinality(Claimers(<<"/", "opt", "app">>)) = 2
    /\ \A p \in DOMAIN files : Cardinality(Holders(p)) = 1

\* Components of two backends beside chunkah/unclaimed, and a directory
\* in two components of one of them.
TwoBackendsAndCatchAll ==
    /\ pc = "attr_done"
    /\ {BackendOf(n) : n \in DOMAIN components} = {"chunkah", "xattr", "rpm"}
    /\ \E p \in DOMAIN files : Cardinality(Holders(p)) = 2

\* The paths under a directory of dirs (relative to the root), the directory
\* itself included.
Under(dirs) ==
    {Root \o dirs[i] : i \in DOMAIN dirs}
        \cup {Root \o dirs[i] \o <<"Packages">> : i \in DOMAIN dirs}

\* C9: RpmRepo::claims_for_path is empty for every path under an RPM
\* database directory and every file type, and no rpm/ component of the
\* result holds such a path.
RpmNeverClaimsItsDatabase ==
    /\ \A i \in DOMAIN repos :
        repos[i].kind = "rpm" =>
            \A p \in Under(RPMDB_PATHS), t \in FileTypes :
                Rpm_claims_for_path(repos[i], p, t) = <<>>
    /\ pc = "attr_done" =>
        \A i \in DOMAIN repos :
            repos[i].kind = "rpm" =>
                \A id \in 0..(Len(repos[i].components) - 1) :
                    LET n == "rpm/" \o Rpm_component_info(repos[i], id).name
                    IN  n \in DOMAIN components =>
                            DOMAIN components[n].files \cap Under(RPMDB_PATHS)
                                = {}

\* C9 witness: a package lists /var/lib/rpm/Packages as the regular file the
\* rootfs has there, and after into_components the path is unclaimed.
ListedDatabaseFileUnclaimed ==
    /\ pc = "attr_done"
    /\ \E i \in DOMAIN repos :
        /\ repos[i].kind = "rpm"
        /\ <<"/", "var", "lib", "rpm", "Packages">>
                \in DOMAIN repos[i].path_to_components
        /\ file_info_to_file_type(
               repos[i].path_to_components[
                   <<"/", "var", "lib", "rpm", "Packages">>][1].fi) = "File"
    /\ Holders(<<"/", "var", "lib", "rpm", "Packages">>)
            = {UNCLAIMED_COMPONENT}

\* C10 for the package backends: after into_components no scanned path
\* under an RPM or ALPM database directory is in a component of a package
\* backend; it is in chunkah/unclaimed unless an xattr claims it.
PackageDatabasesUnclaimed ==
    pc = "attr_done" =>
        \A p \in DOMAIN files :
            (\E d \in {RPMDB_PATHS[i] : i \in DOMAIN RPMDB_PATHS}
                    \cup {LOCALDB_PATHS[i] : i \in DOMAIN LOCALDB_PATHS} :
                starts_with(p, Root \o d))
            => \A k \in DOMAIN repos :
                  repos[k].kind \in {"rpm", "alpm"} =>
                      Holders(p) \cap ClaimedNames(repos[k], p) = {}

\* The file types the RPM database records for path under the component
\* of the given id: those of the modes its packages list the path with.
RpmEntryTypes(repo, id, path) ==
    {file_info_to_file_type(pkg.files[path]) :
        pkg \in {rpm_packages[i] : i \in {j \in DOMAIN rpm_packages :
                    /\ path \in DOMAIN rpm_packages[j].files
                    /\ (IF rpm_packages[j].sourcerpm # None
                        THEN parse_srpm_name(rpm_packages[j].sourcerpm)
                        ELSE rpm_packages[j].name)
                            = repo.components[id + 1].name}}}

\* The file types the ALPM database records for path under the component
\* of the given id: a directory for a path listed with a trailing '/',
\* else a file or a symlink.
AlpmEntryTypes(repo, id, path) ==
    UNION {IF Tail(path) \in pkg.dirs THEN {"Directory"}
           ELSE {"File", "Symlink"} :
        pkg \in {alpm_packages[i] : i \in {j \in DOMAIN alpm_packages :
                    /\ alpm_packages[j].base = repo.components[id + 1].name
                    /\ \E k \in DOMAIN alpm_packages[j].files :
                          alpm_packages[j].files[k] = Tail(path)}}}

\* C11 as stated: a loaded package backend (RPM or ALPM) answers
\* claims_for_path(path, type) only with ids of components whose database
\* entry for path has the queried type.
TypeMatchedClaims ==
    pc = "attr_loaded" =>
        \A i \in DOMAIN repos :
            repos[i].kind \in {"rpm", "alpm"} =>
                \A p \in DOMAIN repos[i].path_to_components, t \in FileTypes :
                    LET ids == claims_for_path(repos[i], p, t)
                    IN  \A k \in DOMAIN ids :
                            t \in (IF repos[i].kind = "rpm"
                                   THEN RpmEntryTypes(repos[i], ids[k], p)
                                   ELSE AlpmEntryTypes(repos[i], ids[k], p))

\* The RPM half of C11: the RPM backend answers only with ids of
\* components whose database entry for path has the queried type.
RpmTypeMatchedClaims ==
    pc = "attr_loaded" =>
        \A i \in DOMAIN repos :
            repos[i].kind = "rpm" =>
                \A p \in DOMAIN repos[i].path_to_components, t \in FileTypes :
                    LET ids == claims_for_path(repos[i], p, t)
                    IN  \A k \in DOMAIN ids :
                            t \in RpmEntryTypes(repos[i], ids[k], p)

-----------------------------------------------------------------------------
(* The packer: calculate_packing over PackItems, by the packer policy of   *)
(* the specification (TEV loss, greedy pairwise merging).                  *)

Max(a, b) == IF a >= b THEN a ELSE b
Min(a, b) == IF a <= b THEN a ELSE b

\* Lexicographic order of index lists.
RECURSIVE LexLess(_, _)
LexLess(a, b) ==
    IF b = <<>> THEN FALSE
    ELSE IF a = <<>> THEN TRUE
    ELSE IF Head(a) # Head(b) THEN Head(a) < Head(b)
    ELSE LexLess(Tail(a), Tail(b))

\* A loss that takes the smaller stability for the merged bytes.
TevLossOfMin(a, b) ==
    (a.size + b.size) * Min(a.stability, b.stability)
        - a.size * a.stability - b.size * b.stability

\* The expected volatility lost by merging groups a and b.
TevLoss(a, b) ==
    (a.size + b.size) * Max(a.stability, b.stability)
        - a.size * a.stability - b.size * b.stability

\* The merge of groups a and b: sizes add up, stability is the smaller.
MergeGroups(a, b) ==
    [indices |-> a.indices \o b.indices, size |-> a.size + b.size,
     stability |-> Min(a.stability, b.stability)]

\* One merge: the pair of least loss, then of least merged size, then of
\* the lexicographically least index list; the merged group takes the
\* place of the pair's first group.
MergeOnce(groups) ==
    LET pairs == {ij \in (DOMAIN groups) \X (DOMAIN groups) : ij[1] < ij[2]}
        key(ij) == <<TevLoss(groups[ij[1]], groups[ij[2]]),
                     groups[ij[1]].size + groups[ij[2]].size,
                     groups[ij[1]].indices \o groups[ij[2]].indices>>
        before(x, y) ==
            \/ x[1] < y[1]
            \/ x[1] = y[1] /\ x[2] < y[2]
            \/ x[1] = y[1] /\ x[2] = y[2] /\ LexLess(x[3], y[3])
        best == CHOOSE ij \in pairs :
                    \A other \in pairs \ {ij} : before(key(ij), key(other))
    IN  [k \in 1..(Len(groups) - 1) |->
            IF k = best[1] THEN MergeGroups(groups[best[1]], groups[best[2]])
            ELSE IF k < best[2] THEN groups[k]
            ELSE groups[k + 1]]

RECURSIVE MergeUntil(_, _)
MergeUntil(groups, max_groups) ==
    IF Len(groups) <= max_groups \/ Len(groups) <= 1 THEN groups
    ELSE MergeUntil(MergeOnce(groups), max_groups)

\* calculate_packing: one group per item when they fit, else merged down
\* to max_groups groups. Indices are 0-based positions of items.
calculate_packing(items, max_groups) ==
    MergeUntil([i \in DOMAIN items |->
                   [indices |-> <<i - 1>>, size |-> items[i].size,
                    stability |-> items[i].stability]],
               max_groups)

-----------------------------------------------------------------------------
(* cmd_build.rs pack_components and ocibuilder.rs add_components.          *)

\* comp.files.values().map(|f| f.size).sum().
RECURSIVE SumSizes(_, _)
SumSizes(fmap, paths) ==
    IF paths = {} THEN 0
    ELSE LET p == CHOOSE q \in paths : TRUE
         IN  fmap[p].size + SumSizes(fmap, paths \ {p})

\* names.join(" ").
RECURSIVE JoinNames(_)
JoinNames(names) ==
    IF Len(names) = 1 THEN names[1]
    ELSE names[1] \o " " \o JoinNames(Tail(names))

\* A merge that keeps the files of the last member only.
RECURSIVE MergeMembersFilesReplaced(_, _, _)
MergeMembersFilesReplaced(entries, indices, acc) ==
    IF indices = <<>> THEN acc
    ELSE LET e == entries[Head(indices) + 1]
         IN  MergeMembersFilesReplaced(entries, Tail(indices),
                [names |-> Append(acc.names, e.name),
                 max_mtime_clamp |-> Max(acc.max_mtime_clamp,
                                         e.component.mtime_clamp),
                 merged_files |-> e.component.files])

\* A merge that moves the clamp down instead of up.
RECURSIVE MergeMembersClampDown(_, _, _)
MergeMembersClampDown(entries, indices, acc) ==
    IF indices = <<>> THEN acc
    ELSE LET e == entries[Head(indices) + 1]
         IN  MergeMembersClampDown(entries, Tail(indices),
                [names |-> Append(acc.names, e.name),
                 max_mtime_clamp |-> Min(acc.max_mtime_clamp,
                                         e.component.mtime_clamp),
                 merged_files |-> e.component.files @@ acc.merged_files])

\* The merged-group branch of pack_components: the members' names joined,
\* the largest of their clamps, their files in one map (a later member's
\* entry replaces an earlier one's).
RECURSIVE MergeMembers(_, _, _)
MergeMembers(entries, indices, acc) ==
    IF indices = <<>> THEN acc
    ELSE LET e == entries[Head(indices) + 1]
         IN  MergeMembers(entries, Tail(indices),
                [names |-> Append(acc.names, e.name),
                 max_mtime_clamp |-> Max(acc.max_mtime_clamp,
                                         e.component.mtime_clamp),
                 merged_files |-> e.component.files @@ acc.merged_files])

\* A packing that leaves every component in a layer of its own.
pack_components_unmerged(max, entries) == entries

\* pack_components; entries is the components map as into_iter() yields it.
pack_components(max, entries) ==
    LET items == [i \in DOMAIN entries |->
                    [size |-> SumSizes(entries[i].component.files,
                                       DOMAIN entries[i].component.files),
                     stability |-> entries[i].component.stability]]
        packed_groups == calculate_packing(items, max)
    IN  [g \in DOMAIN packed_groups |->
            LET group == packed_groups[g]
            IN  IF Len(group.indices) = 1
                THEN entries[group.indices[1] + 1]
                ELSE LET m == MergeMembers(entries, group.indices,
                                [names |-> <<>>, max_mtime_clamp |-> 0,
                                 merged_files |-> <<>>])
                     IN  [name |-> JoinNames(m.names),
                          component |->
                            [mtime_clamp |-> m.max_mtime_clamp,
                             stability |-> group.stability,
                             files |-> m.merged_files]]]

\* format!("{:.3}", stability), as thousandths: the stability rounded to
\* three decimals.
FormatStability(stability) ==
    (2000 * stability + StabOne) \div (2 * StabOne)

\* An add_components that emits a layer for every component.
add_components_all(comps) ==
    [i \in DOMAIN comps |->
        [component |-> comps[i].name,
         stability |-> FormatStability(comps[i].component.stability),
         mtime_clamp |-> comps[i].component.mtime_clamp,
         files |-> comps[i].component.files]]

\* Builder::add_components: one layer per component that has files, in the
\* order of the list, annotated with the component's name and stability.
add_components(comps) ==
    LET kept == SelectSeq(comps, LAMBDA e : DOMAIN e.component.files # {})
    IN  [i \in DOMAIN kept |->
            [component |-> kept[i].name,
             stability |-> FormatStability(kept[i].component.stability),
             mtime_clamp |-> kept[i].component.mtime_clamp,
             files |-> kept[i].component.files]]

\* The diff-id of a layer: the digest of its tar stream, which the files
\* and the clamp determine.
DiffId(layer) == [files |-> layer.files, mtime_clamp |-> layer.mtime_clamp]

\* push_layer_with_history_annotated: a diff-id is pushed to the config's
\* rootfs with every layer descriptor pushed to the manifest.
diff_ids_of(lyrs) == [i \in DOMAIN lyrs |-> DiffId(lyrs[i])]

\* insert_manifest_and_config at the end of build_oci_dir.
OCI_DIR_BUILT == {"manifest", "config"}

-----------------------------------------------------------------------------
(* Specification of packing and assembly: cmd_build::run from              *)
(* pack_components on, run any number of times over the same components.   *)

\* Component maps as into_components returns them: the RPM components share
\* the directory /usr, every component has a file of its own.
BuildNames == {UNCLAIMED_COMPONENT, "rpm/p", "rpm/q", "xattr/A"}

OwnFile(name) ==
    CASE name = UNCLAIMED_COMPONENT -> <<"/", "a">>
      [] name = "rpm/p" -> <<"/", "usr", "a">>
      [] name = "rpm/q" -> <<"/", "usr", "b">>
      [] name = "xattr/A" -> <<"/", "b">>

ClampOf(name) ==
    CASE name = "rpm/p" -> 5
      [] name = "rpm/q" -> 6
      [] OTHER -> 9

BuildFiles(name, size) ==
    (OwnFile(name) :> FileInfo("File", size, 1, 1, 1, <<>>))
    @@ (IF name \in {"rpm/p", "rpm/q"}
        THEN (<<"/", "usr">> :> FileInfo("Directory", 1, 1, 1, 1, <<>>))
        ELSE <<>>)

BuildInputs(most) ==
    UNION {
        {[n \in N |->
            [mtime_clamp |-> ClampOf(n), stability |-> st[n],
             files |-> BuildFiles(n, sz[n])]] :
            sz \in [N -> {1, 2}], st \in [N -> {StabQuarter, StabOne - 1}]} :
        N \in {M \in SUBSET BuildNames :
                  M # {} /\ Cardinality(M) <= most}}

InitBuild ==
    /\ pc = "build_start"
    /\ components \in BuildInputs(MaxComponents)
    /\ max_layers \in 1..MaxLayers
    /\ entry_order = <<>>
    /\ packed = <<>>
    /\ layers = <<>>
    /\ files = <<>>
    /\ xattr_repo = NoRepo
    /\ AttrIdle
    /\ TarIdle
    /\ ExtIdle

\* The components map in the order ord, as (name, component) pairs.
Entries(ord) ==
    [i \in DOMAIN ord |-> [name |-> ord[i], component |-> components[ord[i]]]]

\* pack_components, with components.into_iter() yielding the entries of the
\* HashMap in an order of its choosing.
PackComponents ==
    /\ pc = "build_start"
    /\ \E ord \in Permutations3(DOMAIN components) :
        /\ entry_order' = ord
        /\ packed' = pack_components(max_layers, Entries(ord))
    /\ pc' = "packed"
    /\ UNCHANGED <<ext_vars, files, components, attr_vars, max_layers, layers, tar_vars>>

\* Builder::add_components over the packed components.
AddComponents ==
    /\ pc = "packed"
    /\ layers' = add_components(packed)
    /\ pc' = "built"
    /\ UNCHANGED <<ext_vars, files, components, attr_vars, max_layers, entry_order,
                   packed, tar_vars>>

\* Another run of the build over the same components and max_layers.
BuildAgain ==
    /\ pc = "built"
    /\ \E ord \in Permutations3(DOMAIN components) :
        /\ entry_order' = ord
        /\ packed' = pack_components(max_layers, Entries(ord))
        /\ layers' = add_components(pack_components(max_layers, Entries(ord)))
    /\ pc' = "built"
    /\ UNCHANGED <<ext_vars, files, components, attr_vars, max_layers, tar_vars>>

NextBuild == PackComponents \/ AddComponents \/ BuildAgain

SpecBuild == InitBuild /\ [][NextBuild]_vars

\* C1 as stated: a second run over the same components and max_layers
\* produces the same layers, with the same members, names and order.
RunsAgree ==
    [][(pc = "built" /\ pc' = "built") => layers' = layers]_vars

\* The member components of a packed entry: the names its name joins.
RECURSIVE MembersOf(_, _)
MembersOf(name, names) ==
    IF names = {} THEN {}
    ELSE LET n == CHOOSE m \in names : TRUE
         IN  (IF \E i \in 1..(Len(name) - Len(n) + 1) :
                    SubSeq(name, i, i + Len(n) - 1) = n
              THEN {n} ELSE {})
             \cup MembersOf(name, names \ {n})

PackedGroups ==
    calculate_packing(
        [i \in DOMAIN entry_order |->
            [size |-> SumSizes(components[entry_order[i]].files,
                               DOMAIN components[entry_order[i]].files),
             stability |-> components[entry_order[i]].stability]],
        max_layers)
GroupMembers(group) ==
    [k \in DOMAIN group.indices |-> entry_order[group.indices[k] + 1]]

\* The names joined by single spaces, in order: name k starts after the
\* names before it and one space for each of them.
RECURSIVE JoinedOffset(_, _)
JoinedOffset(names, k) ==
    IF k = 1 THEN 0 ELSE JoinedOffset(names, k - 1) + Len(names[k - 1]) + 1
SpaceJoined(names, joined) ==
    /\ Len(joined) = JoinedOffset(names, Len(names) + 1) - 1
    /\ \A k \in DOMAIN names :
          /\ SubSeq(joined, JoinedOffset(names, k) + 1,
                    JoinedOffset(names, k) + Len(names[k])) = names[k]
          /\ k > 1 => SubSeq(joined, JoinedOffset(names, k),
                             JoinedOffset(names, k)) = " "

\* The entry is the merge of the members: the largest clamp, the least
\* stability, the names joined in order, the union of the file maps.
IsMergeOf(entry, members) ==
    LET S == {members[k] : k \in DOMAIN members}
    IN  /\ \E n \in S : entry.component.mtime_clamp = components[n].mtime_clamp
        /\ \A n \in S : entry.component.mtime_clamp >= components[n].mtime_clamp
        /\ \E n \in S : entry.component.stability = components[n].stability
        /\ \A n \in S : entry.component.stability <= components[n].stability
        /\ SpaceJoined(members, entry.name)
        /\ DOMAIN entry.component.files
              = UNION {DOMAIN components[n].files : n \in S}
        /\ \A n \in S : \A path \in DOMAIN components[n].files :
              entry.component.files[path] = components[n].files[path]

\* C18: a group of several components is emitted as their merge: clamp the
\* maximum, stability the minimum, name the member names joined by single
\* spaces in the group's index order, files the union; and with
\* max_layers = 1 and more than one component the result is one such
\* merged layer of all of them.
MergeMetadata ==
    pc \in {"packed", "built"} =>
        LET groups == PackedGroups
        IN  /\ Len(packed) = Len(groups)
            /\ \A g \in DOMAIN packed :
                  Len(groups[g].indices) > 1
                      => IsMergeOf(packed[g], GroupMembers(groups[g]))
            /\ (max_layers = 1 /\ Cardinality(DOMAIN components) > 1)
                  => /\ Len(packed) = 1
                     /\ Len(groups[1].indices) = Cardinality(DOMAIN components)
                     /\ IsMergeOf(packed[1], GroupMembers(groups[1]))
                     /\ pc = "built" => Len(layers) = 1

\* C18 witness: three components with two different clamps and two
\* different stabilities, built into one layer with max_layers = 1.
ThreeMergedIntoOne ==
    /\ pc = "built"
    /\ max_layers = 1
    /\ DOMAIN components = {"rpm/p", "rpm/q", "xattr/A"}
    /\ components["rpm/p"].stability # components["rpm/q"].stability
    /\ Len(layers) = 1
    /\ layers[1].mtime_clamp = 9
    /\ Cardinality(DOMAIN layers[1].files) = 4

\* The member components of every packed entry.
PackedMembers ==
    [g \in DOMAIN packed |-> MembersOf(packed[g].name, DOMAIN components)]

\* C23: every component is a member of exactly one packed entry, which
\* holds its files as they were; the packed entries hold no other files;
\* and when the components are no more than max_layers every packed entry
\* is one component, unchanged.
PackingPartition ==
    pc \in {"packed", "built"} =>
        LET members == PackedMembers
        IN  /\ \A n \in DOMAIN components :
                  /\ Cardinality({g \in DOMAIN packed : n \in members[g]}) = 1
                  /\ \A g \in DOMAIN packed :
                        n \in members[g] =>
                            \A path \in DOMAIN components[n].files :
                                /\ path \in DOMAIN packed[g].component.files
                                /\ packed[g].component.files[path]
                                      = components[n].files[path]
            /\ \A g \in DOMAIN packed :
                  /\ members[g] # {}
                  /\ DOMAIN packed[g].component.files
                        \subseteq UNION {DOMAIN components[n].files :
                                            n \in members[g]}
            /\ Cardinality(DOMAIN components) <= max_layers =>
                  /\ Len(packed) = Cardinality(DOMAIN components)
                  /\ \A g \in DOMAIN packed :
                        /\ packed[g].name \in DOMAIN components
                        /\ packed[g].component = components[packed[g].name]

\* C23 witness: three components packed into two entries, one of them the
\* merge of two components that share the directory /usr.
ThreePackedIntoTwo ==
    /\ pc = "packed"
    /\ max_layers = 2
    /\ Cardinality(DOMAIN components) = 3
    /\ Len(packed) = 2
    /\ \E g \in DOMAIN packed :
          /\ MembersOf(packed[g].name, DOMAIN components) = {"rpm/p", "rpm/q"}
          /\ Cardinality(DOMAIN packed[g].component.files) = 3

-----------------------------------------------------------------------------
(* tar.rs: write_files_to_tar and the entry writers. A tar entry is its    *)
(* type, its path and link name relative to the root, the mtime and the    *)
(* mode of its header, and the xattrs appended before it.                  *)

\* tar.rs strip_root_prefix.
strip_root_prefix(path) ==
    IF strip_prefix_root(path).ok THEN strip_prefix_root(path).rel ELSE path

\* A header that takes the mtime of the file as it is.
header_unclamped(file_info, clamp) ==
    [mtime |-> file_info.mtime, mode |-> file_info.mode]

\* tar.rs write_header_from_file_info; of the header fields the model keeps
\* the mtime and the mode.
write_header_from_file_info(file_info, clamp) ==
    [mtime |-> Min(file_info.mtime, clamp), mode |-> file_info.mode]

\* tar.rs write_dir_entry.
write_dir_entry(path, clamp, file_info) ==
    [entry_type |-> "Directory", path |-> strip_root_prefix(path),
     link_name |-> <<>>,
     mtime |-> write_header_from_file_info(file_info, clamp).mtime,
     mode |-> write_header_from_file_info(file_info, clamp).mode,
     xattrs |-> file_info.xattrs]

\* A link entry written like the entry of a file: with its xattrs and the
\* mode as it is.
write_hardlink_entry_as_file(path, link_target, clamp, file_info) ==
    [entry_type |-> "Link", path |-> strip_root_prefix(path),
     link_name |-> strip_root_prefix(link_target),
     mtime |-> write_header_from_file_info(file_info, clamp).mtime,
     mode |-> write_header_from_file_info(file_info, clamp).mode,
     xattrs |-> file_info.xattrs]

\* tar.rs write_hardlink_entry: the mode is set again without the file type
\* bits (mode & 0o7777), and no xattrs are appended for a link.
write_hardlink_entry(path, link_target, clamp, file_info) ==
    [entry_type |-> "Link", path |-> strip_root_prefix(path),
     link_name |-> strip_root_prefix(link_target),
     mtime |-> write_header_from_file_info(file_info, clamp).mtime,
     mode |-> file_info.mode % 4096,
     xattrs |-> <<>>]

\* tar.rs write_file_entry.
write_file_entry(root, path, clamp, file_info) ==
    [entry_type |-> "Regular", path |-> strip_root_prefix(path),
     link_name |-> <<>>,
     mtime |-> write_header_from_file_info(file_info, clamp).mtime,
     mode |-> write_header_from_file_info(file_info, clamp).mode,
     xattrs |-> file_info.xattrs]

\* tar.rs write_symlink_entry: the link name is read from the rootfs.
write_symlink_entry(root, path, clamp, file_info) ==
    [entry_type |-> "Symlink", path |-> strip_root_prefix(path),
     link_name |-> root[path].target,
     mtime |-> write_header_from_file_info(file_info, clamp).mtime,
     mode |-> write_header_from_file_info(file_info, clamp).mode,
     xattrs |-> file_info.xattrs]

\* A walk that never pops its stack.
TarPopNone(stack, path) == stack

\* The while loop at the head of write_files_to_tar's walk: pop the
\* directories that are not strict ancestors of path.
RECURSIVE TarPop(_, _)
TarPop(stack, path) ==
    IF stack = <<>> THEN stack
    ELSE IF starts_with(path, stack[Len(stack)]) /\ path # stack[Len(stack)]
    THEN stack
    ELSE TarPop(SubSeq(stack, 1, Len(stack) - 1), path)

\* The missing ancestors listed shallowest first, so that the reversed
\* loop writes the nearest one first.
AncestorsShallowestFirst(path, stack) ==
    LET all == [k \in 1..(Len(path) - 2) |-> SubSeq(path, 1, Len(path) - k)]
        stops == {k \in DOMAIN all :
                     stack # <<>> /\ all[k] = stack[Len(stack)]}
        n == IF stops = {} THEN Len(all)
             ELSE (CHOOSE k \in stops : \A j \in stops : k <= j) - 1
    IN  [k \in 1..n |-> all[n + 1 - k]]

\* path.ancestors().skip(1), without "" and "/", up to the top of the
\* stack: nearest ancestor first.
Ancestors(path, stack) ==
    LET all == [k \in 1..(Len(path) - 2) |-> SubSeq(path, 1, Len(path) - k)]
        stops == {k \in DOMAIN all :
                     stack # <<>> /\ all[k] = stack[Len(stack)]}
        n == IF stops = {} THEN Len(all)
             ELSE (CHOOSE k \in stops : \A j \in stops : k <= j) - 1
    IN  SubSeq(all, 1, n)

\* FileInfo::from_metadata(symlink_metadata(path), Directory, xattrs).
from_metadata(root, path) ==
    [file_type |-> "Directory", mode |-> root[path].mode,
     size |-> root[path].size, mtime |-> root[path].mtime,
     ino |-> root[path].ino, nlink |-> root[path].nlink,
     xattrs |-> root[path].xattrs]

\* The loop over ancestors.into_iter().rev(): write each missing parent
\* directory, from the FileMap if it has it, else from the rootfs, and
\* push it.
RECURSIVE WriteAncestors(_, _, _, _, _)
WriteAncestors(st, ancestors, fmap, root, clamp) ==
    IF ancestors = <<>> THEN st
    ELSE LET ancestor == ancestors[Len(ancestors)]
             ancestor_info == IF ancestor \in DOMAIN fmap THEN fmap[ancestor]
                              ELSE from_metadata(root, ancestor)
         IN  WriteAncestors(
                [stack |-> Append(st.stack, ancestor),
                 entries |-> Append(st.entries,
                                write_dir_entry(ancestor, clamp, ancestor_info))],
                SubSeq(ancestors, 1, Len(ancestors) - 1), fmap, root, clamp)

\* An inode whose first path is never found again.
first_path_forgotten(map, file_info) == None

\* inode_to_path.get(&file_info.ino).
first_path(map, file_info) ==
    IF file_info.ino \in DOMAIN map THEN map[file_info.ino] ELSE None

-----------------------------------------------------------------------------
(* Specification of write_files_to_tar: one component's FileMap, a subset  *)
(* of the rootfs, written entry by entry.                                  *)

TarDirs == {<<"/", "a">>, <<"/", "a", "a">>}
TarLeaves == {<<"/", "a", "a", "a">>, <<"/", "a", "b">>, <<"/", "b">>}
TarInodes == {1, 2}

\* The rootfs: hardlinks share inode, type and mtime; nlink counts the
\* paths of the inode; directories have inodes of their own.
TarRootfs(latest) ==
    {[p \in TarDirs \cup TarLeaves |->
        IF p \in TarDirs
        THEN [file_type |-> "Directory", mode |-> DirMode, size |-> 1,
              mtime |-> dm[p], ino |-> 10 + Len(p), nlink |-> 2,
              xattrs |-> <<>>, target |-> <<>>]
        ELSE [file_type |-> ty[ino[p]],
              mode |-> IF ty[ino[p]] = "Symlink" THEN LinkMode ELSE FileMode,
              size |-> 1, mtime |-> mt[ino[p]], ino |-> ino[p],
              nlink |-> Cardinality({q \in TarLeaves : ino[q] = ino[p]}),
              xattrs |-> XattrsOf(IF ino[p] = 1 THEN "A" ELSE None),
              target |-> IF ty[ino[p]] = "Symlink" THEN <<"a", "b">>
                         ELSE <<>>]] :
        ino \in [TarLeaves -> TarInodes],
        ty \in [TarInodes -> {"File", "Symlink"}],
        mt \in [TarInodes -> {1, latest}],
        dm \in [TarDirs -> {1, latest}]}

InitTar ==
    /\ pc = "tar_start"
    /\ rootfs \in TarRootfs(MaxMtime)
    /\ \E S \in SUBSET (TarDirs \cup TarLeaves) :
        /\ S # {}
        /\ files = [p \in S |->
                      [file_type |-> rootfs[p].file_type,
                       mode |-> rootfs[p].mode, size |-> rootfs[p].size,
                       mtime |-> rootfs[p].mtime, ino |-> rootfs[p].ino,
                       nlink |-> rootfs[p].nlink,
                       xattrs |-> rootfs[p].xattrs]]
    /\ mtime_clamp = 2
    /\ cursor = 0
    /\ tar_dir_stack = <<>>
    /\ tar_inode_to_path = <<>>
    /\ tar = <<>>
    /\ components = <<>>
    /\ xattr_repo = NoRepo
    /\ AttrIdle
    /\ BuildIdle
    /\ ExtIdle

\* The entry the loop of write_files_to_tar is at.
TarPath == SortPaths(DOMAIN files)[cursor + 1]

\* The stack and the entries after the loop body has popped the stack and
\* written the missing parent directories of TarPath.
TarParents ==
    LET popped == TarPop(tar_dir_stack, TarPath)
    IN  WriteAncestors([stack |-> popped, entries |-> tar],
                       Ancestors(TarPath, popped), files, rootfs, mtime_clamp)

\* The entry is a hardlink to a path written before.
TarKnownLink ==
    /\ files[TarPath].file_type # "Directory"
    /\ files[TarPath].nlink > 1
    /\ first_path(tar_inode_to_path, files[TarPath]) # None

\* An iteration that ends at the continue: a hardlink entry.
TarWriteLink ==
    /\ pc = "tar_start"
    /\ cursor < Cardinality(DOMAIN files)
    /\ TarKnownLink
    /\ tar' = Append(TarParents.entries,
                     write_hardlink_entry(TarPath,
                        first_path(tar_inode_to_path, files[TarPath]),
                        mtime_clamp, files[TarPath]))
    /\ tar_dir_stack' = TarParents.stack
    /\ cursor' = cursor + 1
    /\ UNCHANGED <<pc, ext_vars, files, components, attr_vars, build_vars, rootfs,
                   mtime_clamp, tar_inode_to_path>>

\* An iteration that reaches the match: a directory, file or symlink entry.
TarWriteEntry ==
    /\ pc = "tar_start"
    /\ cursor < Cardinality(DOMAIN files)
    /\ ~TarKnownLink
    /\ LET path == TarPath
           file_info == files[path]
       IN  /\ tar_inode_to_path' =
                IF file_info.file_type # "Directory" /\ file_info.nlink > 1
                THEN (file_info.ino :> path) @@ tar_inode_to_path
                ELSE tar_inode_to_path
           /\ tar' = Append(TarParents.entries,
                CASE file_info.file_type = "Directory" ->
                        write_dir_entry(path, mtime_clamp, file_info)
                  [] file_info.file_type = "File" ->
                        write_file_entry(rootfs, path, mtime_clamp, file_info)
                  [] file_info.file_type = "Symlink" ->
                        write_symlink_entry(rootfs, path, mtime_clamp,
                                            file_info))
           /\ tar_dir_stack' =
                IF file_info.file_type = "Directory"
                THEN Append(TarParents.stack, path)
                ELSE TarParents.stack
    /\ cursor' = cursor + 1
    /\ UNCHANGED <<pc, ext_vars, files, components, attr_vars, build_vars, rootfs,
                   mtime_clamp>>

\* The loop is over: Ok(()).
TarFinish ==
    /\ pc = "tar_start"
    /\ cursor = Cardinality(DOMAIN files)
    /\ pc' = "tar_done"
    /\ UNCHANGED <<ext_vars, files, components, attr_vars, build_vars, tar_vars>>

NextTar == TarWriteLink \/ TarWriteEntry \/ TarFinish

SpecTar == InitTar /\ [][NextTar]_vars

\* The entries written for a path of the rootfs.
EntriesOf(p) == {i \in DOMAIN tar : Root \o tar[i].path = p}

\* The metadata an entry is written from: the FileMap's, else the rootfs's.
SourceInfo(p) == IF p \in DOMAIN files THEN files[p] ELSE rootfs[p]

\* C7: every entry of the tar, whatever its type and wherever its metadata
\* comes from, has the smaller of its file's mtime and the clamp as header
\* mtime; and when the writer is done every path of the FileMap and every
\* parent directory of one has its entry.
MtimeClamped ==
    /\ \A i \in DOMAIN tar :
        /\ tar[i].mtime
              = Min(SourceInfo(Root \o tar[i].path).mtime, mtime_clamp)
        /\ tar[i].mtime <= mtime_clamp
    /\ pc = "tar_done" =>
        \A p \in DOMAIN rootfs :
            (\E q \in DOMAIN files : starts_with(q, p))
                => Cardinality(EntriesOf(p)) = 1

\* C7 witness: a finished tar with a regular or symlink entry, a link
\* entry, a directory of the FileMap and a parent directory taken from the
\* rootfs, some of them clamped and some older than the clamp.
EveryEntryTypeClamped ==
    /\ pc = "tar_done"
    /\ \E i, j, k, l \in DOMAIN tar :
        /\ tar[i].entry_type \in {"Regular", "Symlink"}
        /\ tar[j].entry_type = "Link"
        /\ SourceInfo(Root \o tar[j].path).mtime > mtime_clamp
        /\ tar[k].entry_type = "Directory"
        /\ Root \o tar[k].path \in DOMAIN files
        /\ tar[l].entry_type = "Directory"
        /\ Root \o tar[l].path \notin DOMAIN files
        /\ rootfs[Root \o tar[l].path].mtime > mtime_clamp
        /\ tar[l].mtime = mtime_clamp
        /\ SourceInfo(Root \o tar[k].path).mtime < mtime_clamp
        /\ tar[k].mtime < mtime_clamp

\* The paths of the FileMap hardlinked with p: the non-directories of more
\* than one link that have p's inode.
LinkGroup(p) ==
    {q \in DOMAIN files :
        /\ files[q].file_type # "Directory"
        /\ files[q].nlink > 1
        /\ files[q].ino = files[p].ino}

FullEntryType(file_type) ==
    IF file_type = "File" THEN "Regular" ELSE "Symlink"

\* C8: of the hardlinked paths of a layer, the first in path order is
\* written as a full entry of its type and every later one as a Link entry
\* that names the first, root-stripped.
HardlinkLaw ==
    \A i \in DOMAIN tar :
        LET p == Root \o tar[i].path
        IN  (p \in DOMAIN files /\ p \in LinkGroup(p)) =>
                LET first == CHOOSE q \in LinkGroup(p) :
                                \A r \in LinkGroup(p) \ {q} : PathLess(q, r)
                IN  IF p = first
                    THEN tar[i].entry_type
                            = FullEntryType(files[p].file_type)
                    ELSE /\ tar[i].entry_type = "Link"
                         /\ tar[i].link_name = strip_root_prefix(first)

\* C8 witness: three hardlinked symlinks in one finished layer, the first
\* written as a Symlink entry and the two later ones as Link entries.
HardlinkedSymlinksWritten ==
    /\ pc = "tar_done"
    /\ \E p \in DOMAIN files :
        /\ files[p].file_type = "Symlink"
        /\ Cardinality(LinkGroup(p)) = 3
        /\ Cardinality({i \in DOMAIN tar : tar[i].entry_type = "Link"}) = 2
        /\ Cardinality({i \in DOMAIN tar : tar[i].entry_type = "Symlink"}) = 1

\* The ancestor directories of a path other than the root.
ProperAncestors(p) == {SubSeq(p, 1, n) : n \in 2..(Len(p) - 1)}

\* C24: every entry of the layer has each of its ancestor directories
\* other than the root written before it as a Directory entry, a shallower
\* ancestor before a deeper one, with the metadata of the FileMap when the
\* FileMap has the ancestor and of the rootfs when it has not; and no entry
\* is written for the root directory.
ParentsBeforeChildren ==
    \A i \in DOMAIN tar :
        /\ tar[i].path # <<>>
        /\ \A a \in ProperAncestors(Root \o tar[i].path) :
            \E j \in 1..(i - 1) :
                /\ tar[j].path = strip_root_prefix(a)
                /\ tar[j].entry_type = "Directory"
                /\ tar[j].mtime = Min(SourceInfo(a).mtime, mtime_clamp)
                /\ tar[j].mode = SourceInfo(a).mode
                /\ tar[j].xattrs = SourceInfo(a).xattrs
                /\ \A b \in ProperAncestors(a) :
                    \E k \in 1..(j - 1) : tar[k].path = strip_root_prefix(b)

\* C24 witness: a FileMap of the one file /a/a/a, written after its two
\* parent directories, both taken from the rootfs.
ParentsSynthesised ==
    /\ pc = "tar_done"
    /\ DOMAIN files = {<<"/", "a", "a", "a">>}
    /\ Len(tar) = 3
    /\ tar[1].path = <<"a">> /\ tar[1].entry_type = "Directory"
    /\ tar[2].path = <<"a", "a">> /\ tar[2].entry_type = "Directory"
    /\ tar[3].path = <<"a", "a", "a">>
    /\ tar[2].mtime = Min(rootfs[<<"/", "a", "a">>].mtime, mtime_clamp)

\* C25: no path has two entries in the layer, and the directory stack is
\* a chain: each element is a strict ancestor of the next, after an
\* iteration every element is an ancestor of the path just written, the
\* path itself only as the top, and the stack popped for the next path
\* holds strict ancestors of that path only.
NoDuplicateEntries ==
    /\ \A p \in DOMAIN rootfs : Cardinality(EntriesOf(p)) <= 1
    /\ \A i, j \in DOMAIN tar : tar[i].path = tar[j].path => i = j
    /\ \A k \in 1..(Len(tar_dir_stack) - 1) :
        /\ starts_with(tar_dir_stack[k + 1], tar_dir_stack[k])
        /\ tar_dir_stack[k + 1] # tar_dir_stack[k]
    /\ cursor > 0 =>
        LET last == SortPaths(DOMAIN files)[cursor]
        IN  \A k \in DOMAIN tar_dir_stack :
                /\ starts_with(last, tar_dir_stack[k])
                /\ tar_dir_stack[k] = last =>
                    /\ k = Len(tar_dir_stack)
                    /\ files[last].file_type = "Directory"
    /\ (pc = "tar_start" /\ cursor < Cardinality(DOMAIN files)) =>
        LET popped == TarPop(tar_dir_stack, TarPath)
        IN  \A k \in DOMAIN popped :
                /\ starts_with(TarPath, popped[k])
                /\ popped[k] # TarPath

\* C25 witness: /a is a directory of the FileMap, /a/a is not, and both
\* /a/a/a and /a/b are: the finished layer has /a once, as its own entry,
\* and /a/a once, as a parent, and the stack was popped for /a/b.
SharedParentsWrittenOnce ==
    /\ pc = "tar_done"
    /\ {<<"/", "a">>, <<"/", "a", "a", "a">>, <<"/", "a", "b">>}
            \subseteq DOMAIN files
    /\ <<"/", "a", "a">> \notin DOMAIN files
    /\ Cardinality(EntriesOf(<<"/", "a">>)) = 1
    /\ Cardinality(EntriesOf(<<"/", "a", "a">>)) = 1
    /\ tar_dir_stack = <<<<"/", "a">>>>

\* C26: a Link entry names a path written before it in the same layer as
\* a full entry of the same inode, has no xattrs and has the mode of its
\* file without the file type bits; a file of several links that is the
\* only one of its inode in the FileMap is written as a full entry, with
\* its mode as it is.
HardlinkSelfContained ==
    /\ \A i \in DOMAIN tar :
        tar[i].entry_type = "Link" =>
            /\ \E j \in 1..(i - 1) :
                /\ tar[j].path = tar[i].link_name
                /\ tar[j].entry_type \in {"Regular", "Symlink"}
                /\ files[Root \o tar[j].path].ino
                      = files[Root \o tar[i].path].ino
            /\ tar[i].xattrs = <<>>
            /\ tar[i].mode = files[Root \o tar[i].path].mode % 4096
            /\ tar[i].mode < 4096
    /\ \A p \in DOMAIN files :
        (files[p].nlink > 1 /\ LinkGroup(p) = {p}) =>
            /\ \A i \in EntriesOf(p) :
                /\ tar[i].entry_type = FullEntryType(files[p].file_type)
                /\ tar[i].mode = files[p].mode
                /\ tar[i].xattrs = files[p].xattrs
            /\ pc = "tar_done" => EntriesOf(p) # {}

\* C26 witness: a file with xattrs has three links, the first of them in
\* another component: the finished layer has the second as a Regular entry
\* with the whole mode and the third as a Link entry to the second.
LinkWithinLayerWritten ==
    /\ pc = "tar_done"
    /\ DOMAIN files = {<<"/", "a", "b">>, <<"/", "b">>}
    /\ files[<<"/", "b">>].nlink = 3
    /\ files[<<"/", "b">>].xattrs # <<>>
    /\ Len(tar) = 3
    /\ tar[2].entry_type = "Regular" /\ tar[2].mode = FileMode
    /\ tar[3].entry_type = "Link" /\ tar[3].link_name = <<"a", "b">>
    /\ tar[3].mode = 420

\* A file of two links whose other link is in no entry of the FileMap is
\* written as a Regular entry.
LoneLinkWrittenInFull ==
    /\ pc = "tar_done"
    /\ \E p \in DOMAIN files, i \in DOMAIN tar :
        /\ files[p].nlink = 2
        /\ LinkGroup(p) = {p}
        /\ Root \o tar[i].path = p
        /\ tar[i].entry_type = "Regular"

-----------------------------------------------------------------------------
(* scan.rs: Scanner. The rootfs answers a path with its symlink_metadata   *)
(* and its xattrs; file_type is the cap-std file type, which has more      *)
(* kinds than FileType.                                                    *)

\* mod.rs FileType::from_cap_std: None for sockets, FIFOs and devices.
from_cap_std(file_type) ==
    IF file_type = "Directory" THEN "Directory"
    ELSE IF file_type = "File" THEN "File"
    ELSE IF file_type = "Symlink" THEN "Symlink"
    ELSE None

\* scan.rs read_xattrs: every xattr but security.selinux.
read_xattrs(meta) ==
    SelectSeq(meta.xattrs, LAMBDA kv : kv[1] # "security.selinux")

\* Display of an absolute path.
RECURSIVE PathString(_)
PathString(path) ==
    IF Len(path) <= 1 THEN "/"
    ELSE IF Len(path) = 2 THEN "/" \o path[2]
    ELSE PathString(Parent(path)) \o "/" \o path[Len(path)]

\* The variants of PrunePath.
Exact(path) == [kind |-> "Exact", path |-> path]
ChildrenOnly(path) == [kind |-> "ChildrenOnly", path |-> path]

\* scan.rs check_prune: the action of the first prune path that matches.
RECURSIVE check_prune(_, _)
check_prune(path, prunes) ==
    IF prunes = <<>> THEN "Keep"
    ELSE LET prune == Head(prunes)
         IN  IF prune.kind = "Exact"
             THEN IF starts_with(path, prune.path) THEN "SkipEntirely"
                  ELSE check_prune(path, Tail(prunes))
             ELSE IF path = prune.path THEN "SkipChildren"
             ELSE IF starts_with(path, prune.path) THEN "SkipEntirely"
             ELSE check_prune(path, Tail(prunes))

\* A callback that skips special files whatever the flag says.
ScanCallbackAlwaysSkip(path, meta, skip, prunes) ==
    LET file_type == from_cap_std(meta.file_type)
        prune_action == check_prune(path, prunes)
    IN  IF file_type = None \/ prune_action = "SkipEntirely"
        THEN [flow |-> IF file_type = "Directory" THEN "Break" ELSE "Continue",
              insert |-> FALSE, error |-> None]
        ELSE [flow |-> IF prune_action = "SkipChildren"
                          /\ file_type = "Directory"
                       THEN "Break" ELSE "Continue",
              insert |-> TRUE, error |-> None]

\* The callback Scanner::scan hands to walk, for one entry: whether the
\* entry goes into the FileMap and what the walk is told, or the error.
ScanCallback(path, meta, skip, prunes) ==
    LET file_type == from_cap_std(meta.file_type)
        prune_action == check_prune(path, prunes)
    IN  IF file_type = None
        THEN IF skip
             THEN [flow |-> "Continue", insert |-> FALSE, error |-> None]
             ELSE [flow |-> "Err", insert |-> FALSE,
                   error |-> "special file type not supported: "
                                \o PathString(path)]
        ELSE IF prune_action = "SkipEntirely"
        THEN [flow |-> IF file_type = "Directory" THEN "Break" ELSE "Continue",
              insert |-> FALSE, error |-> None]
        ELSE [flow |-> IF prune_action = "SkipChildren"
                          /\ file_type = "Directory"
                       THEN "Break" ELSE "Continue",
              insert |-> TRUE, error |-> None]

\* FileInfo::from_metadata(&metadata, file_type, xattrs) of the callback.
ScanFileInfo(meta) ==
    FileInfo(from_cap_std(meta.file_type), meta.size, meta.mtime, meta.ino,
             meta.nlink, read_xattrs(meta))

\* The entries of the directory dir.
Children(tree, dir) == {q \in DOMAIN tree : Len(q) > 1 /\ Parent(q) = dir}

-----------------------------------------------------------------------------
(* Specification of Scanner::scan: the walk visits the entries of a        *)
(* directory in the order readdir yields them, the entries of a directory  *)
(* it was told to continue on included.                                    *)

ScanNames == {"a", "app"}

\* The prune paths of the runs: a top-level path and one below it.
PruneTargets == {<<"/", "a">>, <<"/", "a", "a">>}

\* The kinds an entry without children has on disk.
LeafTypes == {"Directory", "File", "Fifo"}

ScanTypeAssignments(S) ==
    {t \in [S -> LeafTypes] : \A p \in S : HasChild(S, p) => t[p] = "Directory"}

ScanRootfs(S, t) ==
    [p \in S |->
        [file_type |-> t[p], size |-> 1, mtime |-> 1, ino |-> 1, nlink |-> 1,
         xattrs |-> <<<<"security.selinux", "s">>, <<XATTR_NAME, "A">>>>,
         target |-> <<>>]]

\* The prune lists of at most two paths, in every order.
PruneLists ==
    LET one == {Exact(q) : q \in PruneTargets}
                  \cup {ChildrenOnly(q) : q \in PruneTargets}
    IN  {<<>>} \cup {<<x>> : x \in one} \cup {<<x, y>> : x \in one, y \in one}

InitScan ==
    /\ pc = "scanning"
    /\ \E S \in Trees(ScanNames, MaxFiles) :
        \E t \in ScanTypeAssignments(S) :
            /\ rootfs = ScanRootfs(S, t)
            /\ walk = {q \in S : Len(q) = 2}
    /\ skip_special_files \in BOOLEAN
    /\ prune_paths \in PruneLists
    /\ scan_result = NoResult
    /\ files = <<>>
    /\ xattr_repo = NoRepo
    /\ components = <<>>
    /\ mtime_clamp = 0
    /\ cursor = 0
    /\ tar_dir_stack = <<>>
    /\ tar_inode_to_path = <<>>
    /\ tar = <<>>
    /\ AttrIdle
    /\ BuildIdle
    /\ RunIdle
    /\ OciIdle
    /\ PackIdle
    /\ CfgIdle
    /\ ParseIdle

\* One call of the callback that does not fail: the entry is recorded or
\* left out, and the walk goes on below it or not.
ScanVisit ==
    /\ pc = "scanning"
    /\ \E path \in walk :
        LET r == ScanCallback(path, rootfs[path], skip_special_files,
                              prune_paths)
        IN  /\ r.flow # "Err"
            /\ files' = IF r.insert
                        THEN (path :> ScanFileInfo(rootfs[path])) @@ files
                        ELSE files
            /\ walk' = (walk \ {path})
                        \cup (IF r.flow = "Continue"
                                 /\ rootfs[path].file_type = "Directory"
                              THEN Children(rootfs, path) ELSE {})
    /\ UNCHANGED <<pc, components, attr_vars, build_vars, rootfs, mtime_clamp,
                   cursor, tar_dir_stack, tar_inode_to_path, tar,
                   skip_special_files, prune_paths, scan_result, run_vars,
                   cfg_vars, oci_vars, pack_vars, parse_vars>>

\* The callback fails: the walk ends, scan returns the error.
ScanFail ==
    /\ pc = "scanning"
    /\ \E path \in walk :
        LET r == ScanCallback(path, rootfs[path], skip_special_files,
                              prune_paths)
        IN  /\ r.flow = "Err"
            /\ scan_result' =
                 [status |-> "err",
                  error |-> "failed to walk rootfs: " \o r.error]
    /\ walk' = {}
    /\ pc' = "scan_failed"
    /\ UNCHANGED <<files, components, attr_vars, build_vars, rootfs,
                   mtime_clamp, cursor, tar_dir_stack, tar_inode_to_path, tar,
                   skip_special_files, prune_paths, run_vars, cfg_vars,
                   oci_vars, pack_vars, parse_vars>>

\* The walk is over: Ok(files).
ScanReturn ==
    /\ pc = "scanning"
    /\ walk = {}
    /\ scan_result' = [status |-> "ok", files |-> files]
    /\ pc' = "scan_done"
    /\ UNCHANGED <<files, components, attr_vars, build_vars, tar_vars, walk,
                   skip_special_files, prune_paths, run_vars, cfg_vars,
                   oci_vars, pack_vars, parse_vars>>

NextScan == ScanVisit \/ ScanFail \/ ScanReturn

SpecScan == InitScan /\ [][NextScan]_vars

\* s has sub as a substring.
Contains(s, sub) ==
    \E i \in 1..(Len(s) - Len(sub) + 1) : SubSeq(s, i, i + Len(sub) - 1) = sub

\* The entry is a socket, FIFO or device.
IsSpecial(path) == rootfs[path].file_type \notin FileTypes

\* The walk gets to see the entry: no prune path matches a directory above
\* it, so every one of them was descended into.
Met(path) ==
    \A k \in 2..(Len(path) - 1) :
        \A i \in DOMAIN prune_paths :
            ~starts_with(SubSeq(path, 1, k), prune_paths[i].path)

\* C13: once scan has returned: if skip_special_files is false and the walk
\* meets a socket, FIFO or device, the result is an error that contains
\* "special file type" and carries no FileMap; else the result is a FileMap
\* without special files that has every other entry the walk meets and the
\* prune list keeps.
SpecialFilesLaw ==
    scan_result.status # "none" =>
        IF ~skip_special_files
           /\ \E p \in DOMAIN rootfs : IsSpecial(p) /\ Met(p)
        THEN /\ scan_result.status = "err"
             /\ Contains(scan_result.error, "special file type")
             /\ "files" \notin DOMAIN scan_result
        ELSE /\ scan_result.status = "ok"
             /\ \A p \in DOMAIN scan_result.files : ~IsSpecial(p)
             /\ \A p \in DOMAIN rootfs :
                    (/\ ~IsSpecial(p)
                     /\ Met(p)
                     /\ check_prune(p, prune_paths) # "SkipEntirely")
                    => /\ p \in DOMAIN scan_result.files
                       /\ scan_result.files[p] = ScanFileInfo(rootfs[p])

\* C13 witness: a scan with skip_special_files that returned a FileMap
\* which leaves out a FIFO the walk met below a directory and has the
\* FIFO's directory and a regular file next to it.
SpecialSkippedOthersReturned ==
    /\ scan_result.status = "ok"
    /\ skip_special_files
    /\ \E p, q \in DOMAIN rootfs :
        /\ IsSpecial(p) /\ Met(p) /\ Len(p) = 3
        /\ p \notin DOMAIN scan_result.files
        /\ Parent(p) \in DOMAIN scan_result.files
        /\ Parent(q) = Parent(p)
        /\ q \in DOMAIN scan_result.files
        /\ scan_result.files[q].file_type = "File"

\* Some prune path of the given kind matches path: as a prefix, as the path
\* itself, or as a prefix of a deeper path.
PrunedExact(path) ==
    \E i \in DOMAIN prune_paths :
        prune_paths[i].kind = "Exact" /\ starts_with(path, prune_paths[i].path)
PrunedAt(path) ==
    \E i \in DOMAIN prune_paths :
        prune_paths[i].kind = "ChildrenOnly" /\ path = prune_paths[i].path
PrunedBelow(path) ==
    \E i \in DOMAIN prune_paths :
        /\ prune_paths[i].kind = "ChildrenOnly"
        /\ starts_with(path, prune_paths[i].path)
        /\ path # prune_paths[i].path

\* Nothing below path is in the FileMap.
NotDescended(path) ==
    \A q \in DOMAIN scan_result.files : ~(starts_with(q, path) /\ q # path)

\* C14 as stated, for every prune list in every order: of the entries the
\* walk meets that are not special files, one that starts with an Exact
\* path is omitted and not descended into; else one that is a ChildrenOnly
\* path is kept and not descended into; else one below a ChildrenOnly path
\* is omitted; every other one is kept.
PruneLaw ==
    scan_result.status = "ok" =>
        \A p \in DOMAIN rootfs :
            (~IsSpecial(p) /\ Met(p)) =>
                IF PrunedExact(p)
                THEN p \notin DOMAIN scan_result.files /\ NotDescended(p)
                ELSE IF PrunedAt(p)
                THEN p \in DOMAIN scan_result.files /\ NotDescended(p)
                ELSE IF PrunedBelow(p)
                THEN p \notin DOMAIN scan_result.files
                ELSE p \in DOMAIN scan_result.files

-----------------------------------------------------------------------------
(* cmd_build.rs run, from the scan on: scan, load the backends, attribute, *)
(* pack, create the output file, build the image into it.                  *)

\* Scanner::scan as a whole: the walk from the entries of the root.
RECURSIVE ScanWalk(_, _, _, _, _)
ScanWalk(tree, pending, acc, skip, prunes) ==
    IF pending = {} THEN [status |-> "ok", files |-> acc]
    ELSE LET path == CHOOSE q \in pending : TRUE
             r == ScanCallback(path, tree[path], skip, prunes)
         IN  IF r.flow = "Err"
             THEN [status |-> "err",
                   error |-> "failed to walk rootfs: " \o r.error]
             ELSE ScanWalk(tree,
                     (pending \ {path})
                        \cup (IF r.flow = "Continue"
                                 /\ tree[path].file_type = "Directory"
                              THEN Children(tree, path) ELSE {}),
                     IF r.insert THEN (path :> ScanFileInfo(tree[path])) @@ acc
                     ELSE acc,
                     skip, prunes)

scan(tree, skip, prunes) ==
    ScanWalk(tree, {q \in DOMAIN tree : Len(q) = 2}, <<>>, skip, prunes)

\* rpm.rs has_rpmdb: one of RPMDB_PATHS exists in the rootfs.
has_rpmdb(tree) ==
    \E i \in DOMAIN RPMDB_PATHS : (Root \o RPMDB_PATHS[i]) \in DOMAIN tree

\* RpmRepo::load: None without a database, else the repo of its packages.
Rpm_load(tree, packages) ==
    IF ~has_rpmdb(tree) THEN NoRepo ELSE Rpm_load_from_packages(packages)

\* ComponentsRepos::load: the xattr, RPM and big-files backends, each
\* pushed when it is present.
ComponentsRepos_load(tree, fmap, packages, clamp) ==
    SelectSeq(<<XattrRepo_load(fmap, clamp), Rpm_load(tree, packages),
                Bigfiles_load(fmap, clamp)>>,
              LAMBDA r : r.some)

\* A run that goes on without a backend.
never_empty(rs) == FALSE

\* ComponentsRepos::is_empty.
is_empty(rs) == rs = <<>>

NO_REPO_ERROR == "no supported component repo found in rootfs"

\* The rootfs of the runs: /opt/app, a regular file or a FIFO, and the
\* RPM database, each present or not.
RunPaths ==
    {<<"/", "opt">>, <<"/", "opt", "app">>, <<"/", "var">>,
     <<"/", "var", "lib">>, <<"/", "var", "lib", "rpm">>,
     <<"/", "var", "lib", "rpm", "Packages">>}

RunTrees ==
    {S \in SUBSET RunPaths : \A q \in S : Len(q) > 2 => Parent(q) \in S}

RunRootfs(S, app_type, app_size, mark) ==
    [q \in S |->
        [file_type |-> IF q = <<"/", "opt", "app">> THEN app_type
                       ELSE IF HasChild(RunPaths, q) THEN "Directory"
                       ELSE "File",
         size |-> IF q = <<"/", "opt", "app">> THEN app_size ELSE 1,
         mtime |-> 1, ino |-> 1, nlink |-> 1,
         xattrs |-> IF q = <<"/", "opt">> THEN XattrsOf(mark) ELSE <<>>,
         target |-> <<>>]]

\* The RPM databases of the runs: without packages, or with one package
\* that owns /opt/app.
RunPackages ==
    {<<>>,
     <<[name |-> "p", sourcerpm |-> None, buildtime |-> 5,
        stability |-> StabOne - 1,
        files |-> (<<"/", "opt", "app">> :> [mode |-> FileMode])]>>}

InitRun ==
    /\ pc = "run_start"
    /\ \E S \in RunTrees :
        \E app_type \in {"File", "Fifo"}, app_size \in {1, BigFileSize},
           mark \in {None, "A"} :
            rootfs = RunRootfs(S, app_type, app_size, mark)
    /\ rpm_packages \in RunPackages
    /\ skip_special_files \in BOOLEAN
    /\ max_layers \in 1..MaxLayers
    /\ default_mtime_clamp = 9
    /\ files = <<>>
    /\ xattr_repo = NoRepo
    /\ alpm_packages = <<>>
    /\ load_order = <<>>
    /\ repos = <<>>
    /\ components = <<>>
    /\ entry_order = <<>>
    /\ packed = <<>>
    /\ layers = <<>>
    /\ mtime_clamp = 0
    /\ cursor = 0
    /\ tar_dir_stack = <<>>
    /\ tar_inode_to_path = <<>>
    /\ tar = <<>>
    /\ prune_paths = <<>>
    /\ walk = {}
    /\ scan_result = NoResult
    /\ RunIdle
    /\ OciIdle
    /\ PackIdle
    /\ CfgIdle
    /\ ParseIdle

\* Scanner::new(&rootfs).skip_special_files(..).scan(); an error ends the
\* run.
RunScan ==
    /\ pc = "run_start"
    /\ scan_result' = scan(rootfs, skip_special_files, prune_paths)
    /\ IF scan_result'.status = "err"
       THEN /\ error' = "scanning rootfs for files: " \o scan_result'.error
            /\ pc' = "run_failed"
            /\ UNCHANGED files
       ELSE /\ files' = scan_result'.files
            /\ pc' = "run_scanned"
            /\ UNCHANGED error
    /\ UNCHANGED <<components, attr_vars, build_vars, tar_vars,
                   skip_special_files, prune_paths, walk, output, cfg_vars,
                   oci_vars, pack_vars, parse_vars>>

\* ComponentsRepos::load.
RunLoad ==
    /\ pc = "run_scanned"
    /\ repos' = ComponentsRepos_load(rootfs, files, rpm_packages,
                                     default_mtime_clamp)
    /\ xattr_repo' = XattrRepo_load(files, default_mtime_clamp)
    /\ pc' = "run_loaded"
    /\ UNCHANGED <<files, components, rpm_packages, alpm_packages, load_order,
                   default_mtime_clamp, build_vars, tar_vars, ext_vars>>

\* repos.is_empty(): the run bails.
RunBail ==
    /\ pc = "run_loaded"
    /\ is_empty(repos)
    /\ error' = NO_REPO_ERROR
    /\ pc' = "run_failed"
    /\ UNCHANGED <<files, components, attr_vars, build_vars, tar_vars,
                   scan_vars, output, cfg_vars, oci_vars, pack_vars,
                   parse_vars>>

\* repos.into_components(files).
RunIntoComponents ==
    /\ pc = "run_loaded"
    /\ ~is_empty(repos)
    /\ components' = into_components(repos, default_mtime_clamp, files)
    /\ pc' = "run_attributed"
    /\ UNCHANGED <<files, attr_vars, build_vars, tar_vars, ext_vars>>

\* pack_components(args, components).
RunPack ==
    /\ pc = "run_attributed"
    /\ \E ord \in Permutations3(DOMAIN components) :
        /\ entry_order' = ord
        /\ packed' = pack_components(max_layers, Entries(ord))
    /\ pc' = "run_packed"
    /\ UNCHANGED <<files, components, attr_vars, max_layers, layers, tar_vars,
                   ext_vars>>

\* An output file that is created before anything else is done.
RunCreateOutputFirst ==
    /\ pc = "run_start"
    /\ output = None
    /\ output' = "created"
    /\ UNCHANGED <<pc, files, components, attr_vars, build_vars, tar_vars,
                   scan_vars, error, cfg_vars, oci_vars, pack_vars,
                   parse_vars>>

\* std::fs::File::create(output_path): the file is there, and empty.
RunCreateOutput ==
    /\ pc = "run_packed"
    /\ output' = "created"
    /\ pc' = "run_output"
    /\ UNCHANGED <<files, components, attr_vars, build_vars, tar_vars,
                   scan_vars, error, cfg_vars, oci_vars, pack_vars,
                   parse_vars>>

BUILD_ERROR == "building OCI directory"

\* builder.build(&mut file), build_oci_dir: every layer is added, then the
\* manifest and the config are inserted.
RunBuildOciDir ==
    /\ pc = "run_output"
    /\ layers' = add_components(packed)
    /\ diff_ids' = diff_ids_of(add_components(packed))
    /\ oci_dir' = OCI_DIR_BUILT
    /\ pc' = "run_oci_dir"
    /\ UNCHANGED <<files, components, attr_vars, max_layers, entry_order,
                   packed, tar_vars, scan_vars, run_vars, cfg_vars, pack_vars,
                   parse_vars>>

\* builder.build(&mut file), build_oci_dir: adding the k-th layer fails
\* (an I/O error of write_files_to_tar or of the layer's blob); the layers
\* before it were pushed, and build returns the error.
RunBuildLayerFails ==
    /\ pc = "run_output"
    /\ \E k \in DOMAIN add_components(packed) :
        /\ layers' = SubSeq(add_components(packed), 1, k - 1)
        /\ diff_ids' = diff_ids_of(layers')
    /\ error' = BUILD_ERROR
    /\ pc' = "run_failed"
    /\ UNCHANGED <<files, components, attr_vars, max_layers, entry_order,
                   packed, tar_vars, scan_vars, output, cfg_vars, oci_dir,
                   pack_vars, parse_vars>>

\* builder.build(&mut file), write_oci_archive and flush: the OCI
\* directory goes into the file as an archive.
RunWriteOciArchive ==
    /\ pc = "run_oci_dir"
    /\ output' = "written"
    /\ pc' = "run_done"
    /\ UNCHANGED <<files, components, attr_vars, build_vars, tar_vars,
                   scan_vars, error, cfg_vars, oci_vars, pack_vars,
                   parse_vars>>

NextRun ==
    \/ RunScan
    \/ RunLoad
    \/ RunBail
    \/ RunIntoComponents
    \/ RunPack
    \/ RunCreateOutput
    \/ RunBuildOciDir
    \/ RunBuildLayerFails
    \/ RunWriteOciArchive

SpecRun == InitRun /\ [][NextRun]_vars

\* The scanned rootfs has no attribution signal: no user.component xattr on
\* a scanned path, no RPM database, no big file.
NoSignal ==
    /\ \A q \in DOMAIN files : get_component_xattr(files[q]) = None
    /\ \A i \in DOMAIN RPMDB_PATHS : (Root \o RPMDB_PATHS[i]) \notin DOMAIN rootfs
    /\ \A q \in DOMAIN files :
          ~(files[q].file_type = "File" /\ files[q].size >= BigFileSize)

\* C12: a run whose scan succeeded on a rootfs without attribution signal
\* fails right after the load with "no supported component repo found in
\* rootfs": nothing is attributed, packed or built and the output file is
\* never created.
NoBackendFails ==
    (pc \notin {"run_start", "run_scanned", "run_loaded"}
        /\ scan_result.status = "ok" /\ NoSignal)
    => /\ pc = "run_failed"
       /\ error = NO_REPO_ERROR
       /\ components = <<>>
       /\ packed = <<>>
       /\ layers = <<>>
       /\ output = None

\* C12 witness: the run over the empty rootfs has failed with the error.
EmptyRootfsFailed ==
    /\ pc = "run_failed"
    /\ rootfs = <<>>
    /\ scan_result.status = "ok"
    /\ error = NO_REPO_ERROR
    /\ output = None

-----------------------------------------------------------------------------
(* cmd_build.rs parse_key_value_pairs and its two callers: apply_to_config *)
(* for the labels and run for the manifest annotations. Strings are        *)
(* strings; a map is a function from its keys.                             *)

\* The positions of '=' in s.
EqualsAt(s) == {i \in 1..Len(s) : SubSeq(s, i, i) = "="}

\* A split at the last '='.
rsplit_once(s) ==
    IF EqualsAt(s) = {} THEN [some |-> FALSE, k |-> "", v |-> ""]
    ELSE LET i == CHOOSE j \in EqualsAt(s) : \A l \in EqualsAt(s) : l <= j
         IN  [some |-> TRUE, k |-> SubSeq(s, 1, i - 1),
              v |-> SubSeq(s, i + 1, Len(s))]

\* str::split_once('='): the parts before and after the first '='.
split_once(s) ==
    IF EqualsAt(s) = {} THEN [some |-> FALSE, k |-> "", v |-> ""]
    ELSE LET i == CHOOSE j \in EqualsAt(s) : \A l \in EqualsAt(s) : j <= l
         IN  [some |-> TRUE, k |-> SubSeq(s, 1, i - 1),
              v |-> SubSeq(s, i + 1, Len(s))]

\* A merge in which a key that is already in the map keeps its value.
RECURSIVE parse_pairs_keep_first(_, _)
parse_pairs_keep_first(pairs, map) ==
    IF pairs = <<>> THEN [status |-> "ok", map |-> map]
    ELSE LET pair == Head(pairs)
             kv == split_once(pair)
         IN  IF ~kv.some
             THEN [status |-> "err",
                   error |-> "must be in KEY=VALUE format: " \o pair]
             ELSE IF kv.k = ""
             THEN [status |-> "err", error |-> "key cannot be empty: " \o pair]
             ELSE parse_pairs_keep_first(Tail(pairs), map @@ (kv.k :> kv.v))

\* parse_key_value_pairs: the pairs inserted into map in order, or the
\* error of the first pair that is not KEY=VALUE.
RECURSIVE parse_key_value_pairs(_, _)
parse_key_value_pairs(pairs, map) ==
    IF pairs = <<>> THEN [status |-> "ok", map |-> map]
    ELSE LET pair == Head(pairs)
             kv == split_once(pair)
         IN  IF ~kv.some
             THEN [status |-> "err",
                   error |-> "must be in KEY=VALUE format: " \o pair]
             ELSE IF kv.k = ""
             THEN [status |-> "err", error |-> "key cannot be empty: " \o pair]
             ELSE parse_key_value_pairs(Tail(pairs), (kv.k :> kv.v) @@ map)

\* BuildArgs::apply_to_config, the labels: the merged labels are set on the
\* config when there are any.
apply_to_config(labels, config_labels) ==
    LET r == parse_key_value_pairs(labels, config_labels)
    IN  IF r.status = "err"
        THEN [status |-> "err", error |-> "parsing labels: " \o r.error]
        ELSE [status |-> "ok", some |-> r.map # <<>>, map |-> r.map]

\* run, the annotations: the merged annotations are handed to the Builder.
merge_annotations(annotations, parsed_annotations) ==
    LET r == parse_key_value_pairs(annotations, parsed_annotations)
    IN  IF r.status = "err"
        THEN [status |-> "err", error |-> "parsing annotations: " \o r.error]
        ELSE [status |-> "ok", some |-> TRUE, map |-> r.map]

-----------------------------------------------------------------------------
(* Specification of the KEY=VALUE merge over generated command lines.      *)

KvAlphabet == {"k", "v", "="}

\* The strings over KvAlphabet of length n or less.
RECURSIVE KvStrings(_)
KvStrings(n) ==
    IF n = 0 THEN {""}
    ELSE KvStrings(n - 1)
            \cup {str \o c : str \in KvStrings(n - 1), c \in KvAlphabet}

\* The pairs that follow the first on a command line.
LaterPairs == {"k=v", "k=", "v=k", "kv", "=v"}

\* The command lines: a first string, then up to n - 1 pairs of LaterPairs.
RECURSIVE KvTails(_)
KvTails(n) ==
    IF n = 0 THEN {<<>>}
    ELSE KvTails(n - 1)
            \cup {Append(t, x) : t \in KvTails(n - 1), x \in LaterPairs}

\* The labels or annotations of the config the command line merges into.
BaseMaps ==
    {<<>>, ("k" :> "old"), ("k" :> "old") @@ ("c" :> "kept")}

InitKv ==
    /\ pc = "kv_start"
    /\ \E first \in KvStrings(MaxPairLen), rest \in KvTails(MaxPairs - 1) :
        cli_pairs \in {<<>>, <<first>> \o rest}
    /\ base_map \in BaseMaps
    /\ merged = NoResult
    /\ installed = NoResult
    /\ config_json = None
    /\ parsed = NoResult
    /\ files = <<>>
    /\ xattr_repo = NoRepo
    /\ components = <<>>
    /\ AttrIdle
    /\ BuildIdle
    /\ TarIdle
    /\ ScanIdle
    /\ RunIdle
    /\ OciIdle
    /\ PackIdle
    /\ ParseIdle

\* build_image_config: the labels of the image config.
ApplyToConfig ==
    /\ pc = "kv_start"
    /\ merged' = parse_key_value_pairs(cli_pairs, base_map)
    /\ installed' = apply_to_config(cli_pairs, base_map)
    /\ pc' = "kv_labels"
    /\ UNCHANGED <<files, components, attr_vars, build_vars, tar_vars,
                   scan_vars, run_vars, config_json, parsed, cli_pairs,
                   base_map, oci_vars, pack_vars, parse_vars>>

\* run: the annotations of the manifest.
MergeAnnotations ==
    /\ pc = "kv_start"
    /\ merged' = parse_key_value_pairs(cli_pairs, base_map)
    /\ installed' = merge_annotations(cli_pairs, base_map)
    /\ pc' = "kv_annotations"
    /\ UNCHANGED <<files, components, attr_vars, build_vars, tar_vars,
                   scan_vars, run_vars, config_json, parsed, cli_pairs,
                   base_map, oci_vars, pack_vars, parse_vars>>

NextKv == ApplyToConfig \/ MergeAnnotations

SpecKv == InitKv /\ [][NextKv]_vars

\* The pair is KEY=VALUE for the key k and the value v: k is not empty,
\* has no '=' and is followed by '=' and v.
IsKeyValue(pair, k, v) ==
    /\ k # ""
    /\ EqualsAt(k) = {}
    /\ pair = k \o "=" \o v

\* The prefixes and suffixes of a string.
Prefixes(str) == {SubSeq(str, 1, n) : n \in 0..Len(str)}
Suffixes(str) == {SubSeq(str, n + 1, Len(str)) : n \in 0..Len(str)}

\* The pair is well-formed: KEY=VALUE for some key and value.
WellFormed(pair) ==
    \E k \in Prefixes(pair), v \in Suffixes(pair) : IsKeyValue(pair, k, v)

\* C15: parse_key_value_pairs returns an error and no map when a pair has
\* no '=' or an empty key; else it returns a map in which the key of a
\* pair, the text before its first '=', has as value the whole text after
\* that '=', further '=' included and possibly empty, unless a later pair
\* has the same key.
KeyValueLaw ==
    merged.status # "none" =>
        IF \E i \in DOMAIN cli_pairs : ~WellFormed(cli_pairs[i])
        THEN merged.status = "err" /\ "map" \notin DOMAIN merged
        ELSE /\ merged.status = "ok"
             /\ \A i \in DOMAIN cli_pairs :
                  \A k \in Prefixes(cli_pairs[i]), v \in Suffixes(cli_pairs[i]) :
                      IsKeyValue(cli_pairs[i], k, v) =>
                          /\ k \in DOMAIN merged.map
                          /\ (\A j \in DOMAIN cli_pairs :
                                j > i => ~(\E w \in Suffixes(cli_pairs[j]) :
                                             IsKeyValue(cli_pairs[j], k, w)))
                             => merged.map[k] = v

\* C15 witness: the pair "k=v=v" was parsed to the key "k" with the value
\* "v=v", next to the pair "v=k".
ValueWithEqualsParsed ==
    /\ cli_pairs = <<"k=v=v", "v=k">>
    /\ base_map = <<>>
    /\ merged.status = "ok"
    /\ merged.map = ("k" :> "v=v") @@ ("v" :> "k")

\* The keys the command line names, and the value its last pair for the
\* key gives.
CliKeys ==
    {k \in UNION {Prefixes(cli_pairs[i]) : i \in DOMAIN cli_pairs} :
        \E i \in DOMAIN cli_pairs :
            \E v \in Suffixes(cli_pairs[i]) : IsKeyValue(cli_pairs[i], k, v)}
LastCliValue(k) ==
    LET idx == {i \in DOMAIN cli_pairs :
                   \E v \in Suffixes(cli_pairs[i]) :
                       IsKeyValue(cli_pairs[i], k, v)}
        last == CHOOSE i \in idx : \A j \in idx : j <= i
    IN  CHOOSE v \in Suffixes(cli_pairs[last]) :
            IsKeyValue(cli_pairs[last], k, v)

\* C16: the labels and the annotations the image is given are the config's
\* entries overridden by the command line: a key of the command line has
\* the value of the last pair that names it, every other key of the config
\* keeps its value, and there are no other keys.
CliWinsOverConfig ==
    (installed.status = "ok") =>
        /\ DOMAIN installed.map = DOMAIN base_map \cup CliKeys
        /\ \A k \in DOMAIN installed.map :
              installed.map[k] = IF k \in CliKeys THEN LastCliValue(k)
                                 ELSE base_map[k]
        /\ installed.some \/ installed.map = <<>>

\* C16 witness: labels where the command line named the config's key "k"
\* twice and the config's key "c" not at all.
LabelOverriddenTwice ==
    /\ pc = "kv_labels"
    /\ installed.status = "ok"
    /\ cli_pairs = <<"k=v", "k=">>
    /\ base_map = ("k" :> "old") @@ ("c" :> "kept")
    /\ installed.map = ("k" :> "") @@ ("c" :> "kept")

-----------------------------------------------------------------------------
(* cmd_build.rs parse_config. A JSON value is a record tagged with its     *)
(* type: an array has items, an object has fields (a function from its     *)
(* keys), a string has a value. An oci_image::Config is kept to its        *)
(* Entrypoint.                                                             *)

JArray(items) == [t |-> "array", items |-> items]
JObject(fields) == [t |-> "object", fields |-> fields]
JString(value) == [t |-> "string", value |-> value]

\* Deserialize for oci_image::Config: an object; absent fields are None
\* and other keys are ignored.
de_Config(j) ==
    IF j.t # "object" THEN [ok |-> FALSE]
    ELSE [ok |-> TRUE,
          v |-> [entrypoint |-> IF "Entrypoint" \in DOMAIN j.fields
                                THEN j.fields["Entrypoint"] ELSE None]]

\* Deserialize for ParsedConfig: an object with a Config; Annotations
\* default to the empty map and Architecture to None.
de_ParsedConfig(j) ==
    IF j.t # "object" THEN [ok |-> FALSE]
    ELSE IF "Config" \notin DOMAIN j.fields THEN [ok |-> FALSE]
    ELSE IF ~de_Config(j.fields["Config"]).ok THEN [ok |-> FALSE]
    ELSE [ok |-> TRUE,
          v |-> [config |-> de_Config(j.fields["Config"]).v,
                 annotations |-> IF "Annotations" \in DOMAIN j.fields
                                 THEN j.fields["Annotations"].fields
                                 ELSE <<>>,
                 architecture |-> IF "Architecture" \in DOMAIN j.fields
                                  THEN j.fields["Architecture"] ELSE None]]

\* Deserialize for the untagged ConfigInput: the first variant, in the
\* order of the enum, that the value deserializes as.
de_ConfigInput(j) ==
    IF j.t = "array" /\ \A i \in DOMAIN j.items : de_ParsedConfig(j.items[i]).ok
    THEN [ok |-> TRUE, variant |-> "Inspect",
          vec |-> [i \in DOMAIN j.items |-> de_ParsedConfig(j.items[i]).v]]
    ELSE IF de_ParsedConfig(j).ok
    THEN [ok |-> TRUE, variant |-> "InspectOne", parsed |-> de_ParsedConfig(j).v]
    ELSE IF de_Config(j).ok
    THEN [ok |-> TRUE, variant |-> "Direct", config |-> de_Config(j).v]
    ELSE [ok |-> FALSE]

Parsed(p) ==
    [status |-> "ok", config |-> p.config, annotations |-> p.annotations,
     architecture |-> p.architecture]

\* A parse_config that takes the first element of an inspect array.
parse_config_first(j) ==
    LET input == de_ConfigInput(j)
    IN  IF ~input.ok
        THEN [status |-> "err", error |-> "failed to parse config JSON"]
        ELSE IF input.variant = "Inspect"
        THEN IF input.vec = <<>>
             THEN [status |-> "err", error |-> "inspect output is an empty array"]
             ELSE Parsed(Head(input.vec))
        ELSE IF input.variant = "InspectOne" THEN Parsed(input.parsed)
        ELSE Parsed([config |-> input.config, annotations |-> <<>>,
                     architecture |-> None])

\* parse_config: Vec::pop takes the last element of an inspect array.
parse_config(j) ==
    LET input == de_ConfigInput(j)
    IN  IF ~input.ok
        THEN [status |-> "err", error |-> "failed to parse config JSON"]
        ELSE IF input.variant = "Inspect"
        THEN IF input.vec = <<>>
             THEN [status |-> "err", error |-> "inspect output is an empty array"]
             ELSE Parsed(input.vec[Len(input.vec)])
        ELSE IF input.variant = "InspectOne" THEN Parsed(input.parsed)
        ELSE Parsed([config |-> input.config, annotations |-> <<>>,
                     architecture |-> None])

-----------------------------------------------------------------------------
(* Specification of parse_config over generated config files.              *)

\* The fields of raw OCI configs.
RawConfigs == {<<>>, ("Entrypoint" :> "/a"), ("Entrypoint" :> "/b")}

\* Inspect objects: a Config, with or without Annotations and Architecture.
InspectObjects ==
    {JObject(("Config" :> JObject(c)) @@ ann @@ arch) :
        c \in RawConfigs,
        ann \in {<<>>, ("Annotations" :> JObject(("k" :> "v")))},
        arch \in {<<>>, ("Architecture" :> "arm64")}}

\* The arrays of n or fewer inspect objects.
RECURSIVE InspectArrays(_)
InspectArrays(n) ==
    IF n = 0 THEN {<<>>}
    ELSE InspectArrays(n - 1)
            \cup {Append(a, o) : a \in InspectArrays(n - 1), o \in InspectObjects}

\* Objects without a Config key, one of them with an Architecture key.
OtherObjects ==
    {JObject(c) : c \in RawConfigs}
        \cup {JObject(("Architecture" :> "arm64") @@ ("Entrypoint" :> "/a"))}

InitConfig ==
    /\ pc = "config_start"
    /\ \/ \E a \in InspectArrays(MaxArray) : config_json = JArray(a)
       \/ config_json \in InspectObjects
       \/ config_json \in OtherObjects
       \/ config_json = JString("x")
    /\ parsed = NoResult
    /\ cli_pairs = <<>>
    /\ base_map = <<>>
    /\ merged = NoResult
    /\ installed = NoResult
    /\ files = <<>>
    /\ xattr_repo = NoRepo
    /\ components = <<>>
    /\ AttrIdle
    /\ BuildIdle
    /\ TarIdle
    /\ ScanIdle
    /\ RunIdle
    /\ OciIdle
    /\ PackIdle
    /\ ParseIdle

\* run: the config file is parsed.
ParseConfig ==
    /\ pc = "config_start"
    /\ parsed' = parse_config(config_json)
    /\ pc' = "config_parsed"
    /\ UNCHANGED <<files, components, attr_vars, build_vars, tar_vars,
                   scan_vars, run_vars, config_json, cli_pairs, base_map,
                   merged, installed, oci_vars, pack_vars, parse_vars>>

NextConfig == ParseConfig

SpecConfig == InitConfig /\ [][NextConfig]_vars

\* The value is an inspect object: an object with a "Config" key.
IsInspectObject(j) == j.t = "object" /\ "Config" \in DOMAIN j.fields

\* What the claim says is taken from an inspect object.
FieldOr(fields, key, default) ==
    IF key \in DOMAIN fields THEN fields[key] ELSE default
UsesInspectObject(result, j) ==
    /\ result.status = "ok"
    /\ result.config.entrypoint
          = FieldOr(j.fields["Config"].fields, "Entrypoint", None)
    /\ result.annotations
          = FieldOr(j.fields, "Annotations", JObject(<<>>)).fields
    /\ result.architecture = FieldOr(j.fields, "Architecture", None)

\* C17: parse_config of an array of inspect objects fails when the array
\* is empty and else returns the Config, Annotations and Architecture of
\* its last element; of one object with a "Config" key it returns that
\* object's; of any other object it returns the object as the config, with
\* no annotations and no architecture.
ConfigFormatLaw ==
    parsed.status # "none" =>
        /\ (config_json.t = "array"
                /\ \A i \in DOMAIN config_json.items :
                       IsInspectObject(config_json.items[i]))
            => IF config_json.items = <<>> THEN parsed.status = "err"
               ELSE UsesInspectObject(parsed,
                        config_json.items[Len(config_json.items)])
        /\ IsInspectObject(config_json)
            => UsesInspectObject(parsed, config_json)
        /\ (config_json.t = "object" /\ ~IsInspectObject(config_json))
            => /\ parsed.status = "ok"
               /\ parsed.config.entrypoint
                     = FieldOr(config_json.fields, "Entrypoint", None)
               /\ parsed.annotations = <<>>
               /\ parsed.architecture = None

\* C17 witness: an array of two inspect objects that differ in Config,
\* Annotations and Architecture was parsed to the second.
LastOfTwoUsed ==
    /\ config_json.t = "array"
    /\ Len(config_json.items) = 2
    /\ config_json.items[1]
          = JObject(("Config" :> JObject(("Entrypoint" :> "/a"))))
    /\ parsed.status = "ok"
    /\ parsed.config.entrypoint = "/b"
    /\ parsed.annotations = ("k" :> "v")
    /\ parsed.architecture = "arm64"

-----------------------------------------------------------------------------
(* Specification of ocibuilder.rs Builder over generated component lists,  *)
(* components without files among them.                                    *)

\* The component of the given name, with its files or with none.
OciComponent(name, empty) ==
    [name |-> name,
     component |-> [mtime_clamp |-> ClampOf(name), stability |-> StabQuarter,
                    files |-> IF empty THEN <<>> ELSE BuildFiles(name, 1)]]

\* The lists of n or fewer components of different names.
RECURSIVE OciInputs(_)
OciInputs(n) ==
    IF n = 0 THEN {<<>>}
    ELSE OciInputs(n - 1)
            \cup {Append(l, OciComponent(name, empty)) :
                    l \in OciInputs(n - 1), name \in BuildNames,
                    empty \in BOOLEAN}

InitOci ==
    /\ pc = "oci_start"
    /\ \E l \in OciInputs(MaxComponents) :
        /\ \A i, j \in DOMAIN l : i # j => l[i].name # l[j].name
        /\ packed = l
    /\ max_layers = 0
    /\ entry_order = <<>>
    /\ layers = <<>>
    /\ diff_ids = <<>>
    /\ oci_dir = {}
    /\ PackIdle
    /\ output = None
    /\ error = None
    /\ files = <<>>
    /\ xattr_repo = NoRepo
    /\ components = <<>>
    /\ AttrIdle
    /\ TarIdle
    /\ ScanIdle
    /\ CfgIdle
    /\ ParseIdle

\* Builder::build_oci_dir: the layers are added to an empty manifest and
\* the config, which are then inserted in the OCI directory.
BuildOciDir ==
    /\ pc = "oci_start"
    /\ layers' = add_components(packed)
    /\ diff_ids' = diff_ids_of(add_components(packed))
    /\ oci_dir' = OCI_DIR_BUILT
    /\ pc' = "oci_dir_built"
    /\ UNCHANGED <<files, components, attr_vars, max_layers, entry_order,
                   packed, tar_vars, scan_vars, run_vars, cfg_vars, pack_vars,
                   parse_vars>>

\* Builder::build: the OCI directory is written to the output as an
\* archive.
WriteOciArchive ==
    /\ pc = "oci_dir_built"
    /\ output' = "written"
    /\ pc' = "oci_done"
    /\ UNCHANGED <<files, components, attr_vars, build_vars, tar_vars,
                   scan_vars, error, cfg_vars, oci_vars, pack_vars,
                   parse_vars>>

NextOci == BuildOciDir \/ WriteOciArchive

SpecOci == InitOci /\ [][NextOci]_vars

\* The positions of the components that have files, and how many of them
\* are at or before position i.
NonEmptyAt == {i \in DOMAIN packed : DOMAIN packed[i].component.files # {}}
NonEmptyUpTo(i) == Cardinality({j \in NonEmptyAt : j <= i})

\* C19: the manifest has one layer descriptor, and the config one diff-id,
\* for each component with files, in the order of the component list and
\* annotated with the component's name; components without files have no
\* layer, and the manifest and the config are inserted whatever the number
\* of layers.
OneLayerPerNonEmptyComponent ==
    pc \in {"oci_dir_built", "oci_done"} =>
        /\ Len(layers) = Cardinality(NonEmptyAt)
        /\ Len(diff_ids) = Len(layers)
        /\ \A i \in NonEmptyAt :
              /\ layers[NonEmptyUpTo(i)].component = packed[i].name
              /\ layers[NonEmptyUpTo(i)].files = packed[i].component.files
              /\ diff_ids[NonEmptyUpTo(i)].files = packed[i].component.files
        /\ oci_dir = {"manifest", "config"}

\* C19 witness: three components, the second without files, built into two
\* layers.
EmptyComponentDropped ==
    /\ pc = "oci_done"
    /\ Len(packed) = 3
    /\ NonEmptyAt = {1, 3}
    /\ Len(layers) = 2
    /\ layers[2].component = packed[3].name

\* The output file is as it should be for the stage the run is at: there
\* is none before packing has succeeded, it is empty until the OCI
\* directory is built, and after a failure it has no byte.
OutputInOrder ==
    /\ output # None =>
        /\ scan_result.status = "ok"
        /\ ~is_empty(repos)
        /\ pc \in {"run_output", "run_oci_dir", "run_done", "run_failed"}
        /\ pc = "run_failed" => error = BUILD_ERROR
    /\ output = "written" =>
        /\ pc = "run_done"
        /\ error = None
        /\ oci_dir = OCI_DIR_BUILT
        /\ Len(layers) = Cardinality(NonEmptyAt)
    /\ pc = "run_failed" =>
        /\ output = IF error = BUILD_ERROR THEN "created" ELSE None
        /\ oci_dir = {}
        /\ Len(layers) < Cardinality(NonEmptyAt) \/ error # BUILD_ERROR

\* C30: the output file is created only once scanning, attribution and
\* packing have succeeded; the archive is written to it only in a step
\* that starts with every layer, the manifest and the config in the OCI
\* directory; and when a layer fails the run ends with its error and an
\* output file of zero bytes.
OutputOrdering ==
    /\ []OutputInOrder
    /\ [][/\ (output = None /\ output' # None) =>
                (pc = "run_packed" /\ output' = "created")
          /\ (output # "written" /\ output' = "written") =>
                /\ output = "created"
                /\ oci_dir = OCI_DIR_BUILT
                /\ layers = add_components(packed)
                /\ UNCHANGED <<layers, oci_vars>>]_vars

\* C30 witness: the second of two layers failed: the run has ended with
\* the error of the build, one layer added, no manifest and no config in
\* the OCI directory, and an empty output file.
SecondLayerFailed ==
    /\ pc = "run_failed"
    /\ error = BUILD_ERROR
    /\ Cardinality(NonEmptyAt) = 2
    /\ Len(layers) = 1
    /\ oci_dir = {}
    /\ output = "created"

\* A run that has written its archive.
ArchiveWritten ==
    /\ pc = "run_done"
    /\ output = "written"
    /\ Len(layers) >= 2

\* Three components without files, built into a manifest and a config
\* without layers.
AllEmptyStillBuilt ==
    /\ pc = "oci_done"
    /\ Len(packed) = 3
    /\ NonEmptyAt = {}
    /\ layers = <<>>
    /\ oci_dir = {"manifest", "config"}

-----------------------------------------------------------------------------
(* Specification of the packer's merging, one merge a step, over generated *)
(* pack items.                                                             *)

PackSizes == {1, 2, 3}
PackStabilities == {StabQuarter, StabHalf, StabOne}

\* The lists of n or fewer pack items.
RECURSIVE PackItems(_)
PackItems(n) ==
    IF n = 0 THEN {<<>>}
    ELSE PackItems(n - 1)
            \cup {Append(l, [size |-> sz, stability |-> st]) :
                    l \in PackItems(n - 1), sz \in PackSizes,
                    st \in PackStabilities}

InitPack ==
    /\ pc = "pack_start"
    /\ max_layers \in 1..MaxLayers
    /\ \E items \in PackItems(MaxComponents) :
        /\ items # <<>>
        /\ pack_groups = calculate_packing(items, Len(items))
    /\ entry_order = <<>>
    /\ packed = <<>>
    /\ layers = <<>>
    /\ files = <<>>
    /\ xattr_repo = NoRepo
    /\ components = <<>>
    /\ AttrIdle
    /\ TarIdle
    /\ ScanIdle
    /\ RunIdle
    /\ CfgIdle
    /\ OciIdle
    /\ ParseIdle

\* One merge of calculate_packing, while there are more groups than
\* max_groups.
PackMerge ==
    /\ pc = "pack_start"
    /\ Len(pack_groups) > max_layers
    /\ pack_groups' = MergeOnce(pack_groups)
    /\ UNCHANGED <<pc, files, components, attr_vars, build_vars, tar_vars,
                   scan_vars, run_vars, cfg_vars, oci_vars, parse_vars>>

\* calculate_packing returns the groups.
PackReturn ==
    /\ pc = "pack_start"
    /\ Len(pack_groups) <= max_layers
    /\ pc' = "pack_done"
    /\ UNCHANGED <<files, components, attr_vars, build_vars, tar_vars,
                   ext_vars>>

NextPack == PackMerge \/ PackReturn

SpecPack == InitPack /\ [][NextPack]_vars

\* The groups of a list, and the number of components in them.
GroupSet(gs) == {gs[i] : i \in DOMAIN gs}
RECURSIVE MemberCount(_)
MemberCount(gs) ==
    IF gs = <<>> THEN 0 ELSE Len(Head(gs).indices) + MemberCount(Tail(gs))

\* The loss of merging a and b, as the claim gives it.
ClaimedLoss(a, b) ==
    LET pmax == IF a.stability >= b.stability THEN a.stability ELSE b.stability
    IN  (a.size + b.size) * pmax - a.size * a.stability - b.size * b.stability

\* The pair (a, b) is preferred to the pair (c, d): smaller loss, then
\* smaller merged size, then lexicographically smaller component indices.
Preferred(a, b, c, d) ==
    \/ ClaimedLoss(a, b) < ClaimedLoss(c, d)
    \/ /\ ClaimedLoss(a, b) = ClaimedLoss(c, d)
       /\ a.size + b.size < c.size + d.size
    \/ /\ ClaimedLoss(a, b) = ClaimedLoss(c, d)
       /\ a.size + b.size = c.size + d.size
       /\ LexLess(a.indices \o b.indices, c.indices \o d.indices)

\* The step from gs to hs merges the groups at i and j of gs: they are
\* replaced by one group of their components, with the sum of their sizes
\* and the smaller of their stabilities.
MergesPair(gs, hs, i, j) ==
    \E m \in GroupSet(hs) :
        /\ GroupSet(hs) = (GroupSet(gs) \ {gs[i], gs[j]}) \cup {m}
        /\ Len(hs) = Len(gs) - 1
        /\ m.size = gs[i].size + gs[j].size
        /\ m.stability <= gs[i].stability
        /\ m.stability <= gs[j].stability
        /\ m.stability \in {gs[i].stability, gs[j].stability}
        /\ {m.indices[k] : k \in DOMAIN m.indices}
              = {gs[i].indices[k] : k \in DOMAIN gs[i].indices}
                  \cup {gs[j].indices[k] : k \in DOMAIN gs[j].indices}

\* C20: while there are more groups than max_layers, a step merges the
\* pair of groups that is preferred to every other pair (least TEV loss,
\* then least merged size, then first in lexicographic index order) into a
\* group with the sum of the sizes and the smaller stability; the packer
\* returns when max_layers groups remain, every component in one of them.
MergePolicy ==
    [][/\ pack_groups' # pack_groups =>
            /\ Len(pack_groups) > max_layers
            /\ \E i, j \in DOMAIN pack_groups :
                /\ i < j
                /\ MergesPair(pack_groups, pack_groups', i, j)
                /\ \A c, d \in DOMAIN pack_groups :
                      (c < d /\ <<c, d>> # <<i, j>>)
                          => Preferred(pack_groups[i], pack_groups[j],
                                       pack_groups[c], pack_groups[d])
       /\ pc' = "pack_done" =>
            /\ Len(pack_groups') <= max_layers
            /\ MemberCount(pack_groups') > max_layers
                  => Len(pack_groups') = max_layers
            /\ MemberCount(pack_groups') <= max_layers
                  => \A g \in DOMAIN pack_groups' :
                        Len(pack_groups'[g].indices) = 1
      ]_vars

\* C20 witness: three components packed into two groups; the packer
\* merged the second and the third, of sizes 1 and 2, and left the first,
\* of size 3, alone.
SmallerPairMerged ==
    /\ pc = "pack_done"
    /\ max_layers = 2
    /\ pack_groups
          = <<[indices |-> <<0>>, size |-> 3, stability |-> StabQuarter],
              [indices |-> <<1, 2>>, size |-> 3, stability |-> StabQuarter]>>

-----------------------------------------------------------------------------
(* Specification of rpm.rs parse_srpm_name over generated file names.      *)

SRPM_SUFFIX == ".src.rpm"

\* The strings of letters and dashes of length n or less.
RECURSIVE SrpmStems(_)
SrpmStems(n) ==
    IF n = 0 THEN {""}
    ELSE SrpmStems(n - 1)
            \cup {str \o c : str \in SrpmStems(n - 1), c \in {"a", "-"}}

InitSrpm ==
    /\ pc = "srpm_start"
    /\ \E stem \in SrpmStems(MaxSrpmLen) :
        srpm_input \in {stem, stem \o SRPM_SUFFIX,
                        stem \o SRPM_SUFFIX \o SRPM_SUFFIX}
    /\ srpm_name = NoResult
    /\ changelog_times = <<>>
    /\ buildtime = 0
    /\ now = 0
    /\ stability_result = NoResult
    /\ db_file = <<>>
    /\ db_result = NoResult
    /\ PipelineIdle

\* load_from_packages: the component name of a package.
ParseSrpmName ==
    /\ pc = "srpm_start"
    /\ srpm_name' = [status |-> "ok", name |-> parse_srpm_name(srpm_input)]
    /\ pc' = "srpm_parsed"
    /\ UNCHANGED <<pipeline_vars, srpm_input, changelog_times, buildtime, now,
                   stability_result, db_file, db_result>>

NextSrpm == ParseSrpmName

SpecSrpm == InitSrpm /\ [][NextSrpm]_vars

\* The input without one trailing ".src.rpm".
SuffixStripped(str) ==
    IF \E x \in Prefixes(str) : str = x \o ".src.rpm"
    THEN CHOOSE x \in Prefixes(str) : str = x \o ".src.rpm"
    ELSE str

DashCount(str) == Cardinality({i \in 1..Len(str) : SubSeq(str, i, i) = "-"})

\* C21: the name is the input without a trailing ".src.rpm" when that has
\* fewer than two dashes, and else what precedes its second-to-last dash:
\* the stripped input is the name, a dash, a piece without dashes, a dash
\* and another piece without dashes.
SrpmNameLaw ==
    srpm_name.status = "ok" =>
        LET w == SuffixStripped(srpm_input)
        IN  IF DashCount(w) < 2 THEN srpm_name.name = w
            ELSE \E v \in Suffixes(w) : \E rel \in Suffixes(v) :
                    /\ w = srpm_name.name \o "-" \o v
                    /\ \E ver \in Prefixes(v) : v = ver \o "-" \o rel
                                                 /\ DashCount(ver) = 0
                    /\ DashCount(rel) = 0

\* C21 witness: a name with a dash, a version and a release.
DashedSrpmNameParsed ==
    /\ srpm_input = "a-a-a-a.src.rpm"
    /\ srpm_name.status = "ok"
    /\ srpm_name.name = "a-a"

-----------------------------------------------------------------------------
(* Specification of rpm.rs calculate_stability: the stability of the       *)
(* package at hand, and of the package whose changelog has one entry more. *)
(* Times are seconds. An f64 result is kept as what determines it: 0.0,    *)
(* 0.99, or the count and the span of exp(-(count / span_days) * 7.0).     *)

SECS_PER_DAY == 86400
STABILITY_PERIOD_DAYS == 7
STABILITY_LOOKBACK_DAYS == 365

\* The length of a changelog.
MaxTimes == 3

\* u64::saturating_sub.
saturating_sub(a, b) == IF a >= b THEN a - b ELSE 0

StabilityZero == [kind |-> "zero", count |-> 0, span |-> 0]
StabilityOld == [kind |-> "old", count |-> 0, span |-> 0]
StabilityExp(num_changes, span) ==
    [kind |-> "exp", count |-> num_changes, span |-> span]

\* The least element of a non-empty sequence of numbers.
MinOf(seq) ==
    seq[CHOOSE i \in DOMAIN seq : \A j \in DOMAIN seq : seq[i] <= seq[j]]

\* A window that leaves out the timestamp exactly 365 days old.
calculate_stability_strict(times, build, current) ==
    LET lookback_start ==
            saturating_sub(current, STABILITY_LOOKBACK_DAYS * SECS_PER_DAY)
        relevant_times ==
            SelectSeq(IF times = <<>> THEN <<build>> ELSE times,
                      LAMBDA t : t > lookback_start)
    IN  IF relevant_times = <<>> THEN StabilityOld
        ELSE LET span == saturating_sub(current, MinOf(relevant_times))
             IN  IF span < SECS_PER_DAY THEN StabilityZero
                 ELSE StabilityExp(Len(relevant_times), span)

\* rpm.rs calculate_stability, with the clock's reading as a parameter.
\* span_days < 1.0 is span < SECS_PER_DAY: the conversion of the span to
\* f64 and its division by 86400.0 are exact enough to keep the order.
calculate_stability(times, build, current) ==
    LET lookback_start ==
            saturating_sub(current, STABILITY_LOOKBACK_DAYS * SECS_PER_DAY)
        relevant_times ==
            SelectSeq(IF times = <<>> THEN <<build>> ELSE times,
                      LAMBDA t : t >= lookback_start)
    IN  IF relevant_times = <<>> THEN StabilityOld
        ELSE LET span == saturating_sub(current, MinOf(relevant_times))
             IN  IF span < SECS_PER_DAY THEN StabilityZero
                 ELSE StabilityExp(Len(relevant_times), span)

\* The span in seconds, rounded down, over which one change gives 0.99:
\* 7 * 86400 / -ln(0.99).
OldSpanSecs == 60177093

\* The order of the f64 results: exp(-7 * c / d) grows with d / c, is
\* positive for the counts and spans of the model, and is at most 0.99
\* when the span per change is at most OldSpanSecs.
StabilityLeq(r1, r2) ==
    CASE r1.kind = "zero" -> TRUE
      [] r1.kind = "old" ->
            \/ r2.kind = "old"
            \/ r2.kind = "exp" /\ r2.span > r2.count * OldSpanSecs
      [] r1.kind = "exp" ->
            \/ r2.kind = "old" /\ r1.span <= r1.count * OldSpanSecs
            \/ r2.kind = "exp" /\ r1.count * r2.span >= r2.count * r1.span

\* The clock's readings: more than a year after the epoch, and less.
StabilityNows == {400 * SECS_PER_DAY, 100 * SECS_PER_DAY}

\* Timestamps around the edges of the cases: just older than the window,
\* on its edge, inside it, one day old, just less, and in the future.
TimePoints(current) ==
    {t \in {current - STABILITY_LOOKBACK_DAYS * SECS_PER_DAY - 1,
            current - STABILITY_LOOKBACK_DAYS * SECS_PER_DAY,
            current - 100 * SECS_PER_DAY,
            current - 2 * SECS_PER_DAY,
            current - SECS_PER_DAY,
            current - SECS_PER_DAY + 1,
            current + SECS_PER_DAY} : t >= 0}

SeqsUpTo(S, n) == UNION {[1..k -> S] : k \in 0..n}

InitStability ==
    /\ pc = "stab_start"
    /\ now \in StabilityNows
    /\ buildtime \in TimePoints(now)
    /\ changelog_times \in SeqsUpTo(TimePoints(now), MaxTimes)
    /\ stability_result = NoResult
    /\ srpm_input = ""
    /\ srpm_name = NoResult
    /\ db_file = <<>>
    /\ db_result = NoResult
    /\ PipelineIdle

\* load_from_packages: the stability of the package.
CalculateStability ==
    /\ pc = "stab_start"
    /\ stability_result' = calculate_stability(changelog_times, buildtime, now)
    /\ pc' = "stab_done"
    /\ UNCHANGED <<pipeline_vars, srpm_input, srpm_name, changelog_times,
                   buildtime, now, db_file, db_result>>

\* load_from_packages: the stability of a package that has the same
\* changelog and one timestamp more.
CalculateStabilityOneMore ==
    /\ pc = "stab_done"
    /\ Len(changelog_times) < MaxTimes
    /\ \E t \in TimePoints(now) :
        /\ changelog_times' = Append(changelog_times, t)
        /\ stability_result' =
              calculate_stability(changelog_times', buildtime, now)
    /\ UNCHANGED <<pc, pipeline_vars, srpm_input, srpm_name, buildtime, now,
                   db_file, db_result>>

NextStability == CalculateStability \/ CalculateStabilityOneMore

SpecStability == InitStability /\ [][NextStability]_vars

\* The timestamps the stability is computed from, and those of them in the
\* window of the last 365 days.
TakenTimes(times) == IF times = <<>> THEN <<buildtime>> ELSE times

InWindow(times) ==
    {i \in DOMAIN TakenTimes(times) :
        now - TakenTimes(times)[i] <= STABILITY_LOOKBACK_DAYS * SECS_PER_DAY}

OldestInWindow(times) ==
    CHOOSE t \in {TakenTimes(times)[i] : i \in InWindow(times)} :
        \A i \in InWindow(times) : t <= TakenTimes(times)[i]

\* The cases of the stability model, and the range of the result: the
\* argument of exp is never positive.
StabilityCases ==
    pc = "stab_done" =>
        /\ InWindow(changelog_times) = {} => stability_result = StabilityOld
        /\ InWindow(changelog_times) # {} =>
            IF now - OldestInWindow(changelog_times) < SECS_PER_DAY
            THEN stability_result = StabilityZero
            ELSE /\ stability_result.kind = "exp"
                 /\ stability_result.count
                       = Cardinality(InWindow(changelog_times))
                 /\ stability_result.span
                       = now - OldestInWindow(changelog_times)
        /\ stability_result.kind = "exp" =>
            /\ stability_result.count > 0
            /\ stability_result.span > 0

\* The step adds a timestamp of the window.
AddsInWindow ==
    /\ pc = "stab_done"
    /\ Len(changelog_times') = Len(changelog_times) + 1
    /\ Len(changelog_times') \in InWindow(changelog_times')

\* C27 as claimed: the cases and the range hold, and the stability does
\* not increase when a timestamp of the window is added.
StabilityModel ==
    /\ []StabilityCases
    /\ [][AddsInWindow => StabilityLeq(stability_result', stability_result)]_vars

\* C27 as amended: the cases and the range hold, and the stability does
\* not increase when a timestamp of the window is added that is not older
\* than the oldest timestamp of the window before, if there was one.
StabilityModelAmended ==
    /\ []StabilityCases
    /\ [][(/\ AddsInWindow
           /\ InWindow(changelog_times) # {} =>
                changelog_times'[Len(changelog_times')]
                    >= OldestInWindow(changelog_times))
          => StabilityLeq(stability_result', stability_result)]_vars

\* C27 witness: two changes, 100 and 2 days old, after the second of
\* which the stability is less than it was with only the first.
StabilityLoweredByChange ==
    /\ pc = "stab_done"
    /\ now = 400 * SECS_PER_DAY
    /\ changelog_times = <<now - 100 * SECS_PER_DAY, now - 2 * SECS_PER_DAY>>
    /\ stability_result = StabilityExp(2, 100 * SECS_PER_DAY)
    /\ ~StabilityLeq(calculate_stability(<<now - 100 * SECS_PER_DAY>>,
                                         buildtime, now),
                     stability_result)

-----------------------------------------------------------------------------
(* Specification of alpm.rs LocalAlpmDbFile and of the body of             *)
(* load_from_db's package loop: the desc and files files of one package    *)
(* directory, each a sequence of lines, parsed and read.                   *)

\* The number of lines of a desc file.
MaxLines == 6

ParseErr == [status |-> "err"]

\* line.strip_prefix('%').and_then(|part| part.strip_suffix('%')), for a
\* result that is not empty; None for a content line.
new_header(line) ==
    IF /\ Len(line) >= 3
       /\ SubSeq(line, 1, 1) = "%"
       /\ SubSeq(line, Len(line), Len(line)) = "%"
    THEN SubSeq(line, 2, Len(line) - 1)
    ELSE None

\* The loop that removes the trailing empty lines of a section.
RECURSIVE pop_empty(_)
pop_empty(value) ==
    IF value # <<>> /\ value[Len(value)] = ""
    THEN pop_empty(SubSeq(value, 1, Len(value) - 1))
    ELSE value

\* LocalAlpmDbFile::from_str, line by line: entries is the map, contents
\* the header whose section the next content line is pushed to.
RECURSIVE from_str_lines(_, _, _)
from_str_lines(lines, entries, contents) ==
    IF lines = <<>>
    THEN [status |-> "ok",
          entries |-> [k \in DOMAIN entries |-> pop_empty(entries[k])]]
    ELSE LET line == Head(lines)
         IN  IF new_header(line) # None
             THEN IF new_header(line) \in DOMAIN entries THEN ParseErr
                  ELSE from_str_lines(Tail(lines),
                                      (new_header(line) :> <<>>) @@ entries,
                                      new_header(line))
             ELSE IF contents = None THEN ParseErr
             ELSE from_str_lines(Tail(lines),
                                 [entries EXCEPT ![contents] = Append(@, line)],
                                 contents)

from_str(lines) == from_str_lines(lines, <<>>, None)

\* LocalAlpmDbFile::get_single_line_value.
get_single_line_value(entries, key) ==
    IF key \notin DOMAIN entries THEN ParseErr
    ELSE LET non_empty == SelectSeq(entries[key], LAMBDA l : l # "")
         IN  IF non_empty = <<>> THEN ParseErr
             ELSE IF Len(non_empty) > 1 THEN ParseErr
             ELSE [status |-> "ok", value |-> non_empty[1]]

\* str::parse::<u64> of a trimmed line, for the lines of the model.
parse_u64(str) ==
    IF str = "7" THEN [status |-> "ok", value |-> 7] ELSE ParseErr

\* LocalAlpmDbFile::builddate.
builddate(entries) ==
    LET line == get_single_line_value(entries, "BUILDDATE")
    IN  IF line.status = "err" THEN ParseErr ELSE parse_u64(line.value)

\* LocalAlpmDbFile::base.
base(entries) == get_single_line_value(entries, "BASE")

\* LocalAlpmDbFile::files.
files_of(entries) ==
    IF "FILES" \in DOMAIN entries THEN entries["FILES"] ELSE <<>>

\* package_info_from_dir, desc.base() and desc.builddate() of
\* load_from_db: the package, or the error that ends the load.
load_package(dir) ==
    LET desc == from_str(dir.desc)
        files_file == from_str(dir.files)
    IN  IF desc.status = "err" \/ files_file.status = "err" THEN ParseErr
        ELSE IF base(desc.entries).status = "err" THEN ParseErr
        ELSE IF builddate(desc.entries).status = "err" THEN ParseErr
        ELSE [status |-> "ok",
              base |-> base(desc.entries).value,
              builddate |-> builddate(desc.entries).value,
              files |-> files_of(files_file.entries)]

DescLines == {"%NAME%", "%BASE%", "%BUILDDATE%", "7", ""}

FilesFiles ==
    {<<>>, <<"%FILES%", "7">>, <<"%FILES%", "7", "%FILES%">>, <<"7">>}

InitAlpmDb ==
    /\ pc = "db_start"
    /\ \E d \in SeqsUpTo(DescLines, MaxLines), f \in FilesFiles :
        db_file = [desc |-> d, files |-> f]
    /\ db_result = NoResult
    /\ srpm_input = ""
    /\ srpm_name = NoResult
    /\ changelog_times = <<>>
    /\ buildtime = 0
    /\ now = 0
    /\ stability_result = NoResult
    /\ PipelineIdle

\* One package directory of load_from_db.
LoadPackage ==
    /\ pc = "db_start"
    /\ db_result' = load_package(db_file)
    /\ pc' = "db_done"
    /\ UNCHANGED <<pipeline_vars, srpm_input, srpm_name, changelog_times,
                   buildtime, now, stability_result, db_file>>

NextAlpmDb == LoadPackage

SpecAlpmDb == InitAlpmDb /\ [][NextAlpmDb]_vars

\* The positions of the header lines of a file, and of the header key.
HeaderLines(lines) ==
    {i \in DOMAIN lines :
        /\ Len(lines[i]) >= 3
        /\ SubSeq(lines[i], 1, 1) = "%"
        /\ SubSeq(lines[i], Len(lines[i]), Len(lines[i])) = "%"}

HeaderAt(lines, key) == {i \in HeaderLines(lines) : lines[i] = "%" \o key \o "%"}

SameHeaderTwice(lines) ==
    \E i, j \in HeaderLines(lines) : i # j /\ lines[i] = lines[j]

ContentBeforeHeader(lines) ==
    lines # <<>> /\ 1 \notin HeaderLines(lines)

\* The non-empty lines of the section of a header that occurs once.
SectionValues(lines, key) ==
    LET h == CHOOSE i \in HeaderAt(lines, key) : TRUE
    IN  {i \in DOMAIN lines :
            /\ i > h
            /\ lines[i] # ""
            /\ \A j \in HeaderLines(lines) : ~(h < j /\ j <= i)}

FieldsMalformed(lines, keys) ==
    \E key \in keys :
        \/ HeaderAt(lines, key) = {}
        \/ Cardinality(SectionValues(lines, key)) > 1

\* C28: the load is an error when the desc or the files file has a header
\* twice or a content line before any header, or when the desc has no
\* BASE, no BUILDDATE or no NAME section, or more than one non-empty line
\* in one of them.
AlpmDatabaseErrors ==
    (/\ pc = "db_done"
     /\ \/ SameHeaderTwice(db_file.desc)
        \/ SameHeaderTwice(db_file.files)
        \/ ContentBeforeHeader(db_file.desc)
        \/ ContentBeforeHeader(db_file.files)
        \/ FieldsMalformed(db_file.desc, {"BASE", "BUILDDATE", "NAME"}))
        => db_result.status = "err"

\* The same for the fields that load_from_db reads: BASE and BUILDDATE.
AlpmDatabaseErrorsOfReadFields ==
    (/\ pc = "db_done"
     /\ \/ SameHeaderTwice(db_file.desc)
        \/ SameHeaderTwice(db_file.files)
        \/ ContentBeforeHeader(db_file.desc)
        \/ ContentBeforeHeader(db_file.files)
        \/ FieldsMalformed(db_file.desc, {"BASE", "BUILDDATE"}))
        => db_result.status = "err"

\* A desc of BASE and BUILDDATE without NAME is loaded.
DescWithoutNameLoaded ==
    /\ pc = "db_done"
    /\ db_file.desc = <<"%BASE%", "7", "%BUILDDATE%", "7">>
    /\ db_result.status = "ok"

====
